---- MODULE Spec2Model ----
(***************************************************************************)
(* Fleet Commander: the backend's Redis job queue, Smart Scheduler,        *)
(* auto-scaling, Fleet Doctor and node registry.                           *)
(*                                                                         *)
(* Job queue (backend/api/queue.py).  Every handler is an asyncio          *)
(* coroutine; each `await r.*` is one Redis command, atomic on the         *)
(* server, and a suspension point at which other handlers run.  The Redis  *)
(* commands are operators on the store; the local Python code of a handler *)
(* is an operator on the job record.  Views of the handlers:               *)
(*   - SpecSeq, SpecDrain: calls that do not overlap.  One action per      *)
(*     handler, the whole handler from its first command to its return.    *)
(*   - Spec, SpecClaim: overlapping calls.  One action per Redis command   *)
(*     (the command and the local code that follows it up to the next      *)
(*     command); a request lives in a slot that holds the handler's        *)
(*     position and its local variables.                                   *)
(* Not modelled: payload, result, progress, created_at, callback_url and   *)
(* timeout_seconds (data no handler of the queue branches on), the         *)
(* completion-history list written by update_processing_rate, and the      *)
(* 7-day TTL of a job key.                                                 *)
(*                                                                         *)
(* Smart Scheduler (backend/services/smart_scheduler.py): SpecSched.       *)
(* Auto-scaling (services/autoscaler.py, api/queue.py): SpecScaling.       *)
(* Fleet Doctor (services/fleet_doctor.py, doctor_actions.py): SpecDoctor; *)
(* the problems it stores: SpecProblems; its periodic loop: SpecLoop.      *)
(* Node registry (api/nodes.py, api/websocket.py): SpecNodes for calls     *)
(* that do not overlap, SpecRegistry and SpecSilent for overlapping ones.  *)
(* One worker polling the job queue: SpecKeepClaiming.                     *)
(* Each component's section says what of it is left out.                   *)
(***************************************************************************)
EXTENDS Integers, Sequences, FiniteSets, TLC

\* ------------------------------------------------------------------ bounds
\* Jobs that may be submitted when calls do not overlap (SpecSeq).
MaxJobs == 1
\* Jobs that may be submitted when calls overlap (Spec).
MaxJobsConcurrent == 1
\* Jobs that may be submitted when clients only submit and workers only claim
\* (SpecDrain).
MaxJobsDrain == 3
\* Jobs in the queue when claims overlap and nothing else runs (SpecClaim).
MaxJobsClaim == 2
\* Largest value of the wall clock.
MaxClock == 1
\* Largest value the completed / failed counters are let grow to.
MaxStat == 1

\* ------------------------------------------------------- values of the code
NoneStr == "None"
NoTime == -1

QUEUE_HIGH == "fleet:queue:high"
QUEUE_NORMAL == "fleet:queue:normal"
QUEUE_LOW == "fleet:queue:low"

\* claim_job's loop order: for queue in [QUEUE_HIGH, QUEUE_NORMAL, QUEUE_LOW]
QueueOrder == <<QUEUE_HIGH, QUEUE_NORMAL, QUEUE_LOW>>

JobStatus == {"queued", "processing", "completed", "failed", "dead", "cancelled"}

\* Request slots: concurrent API handlers.
Slots == {1, 2}

\* Node ids used as workers.  "agx-1" and "agx-7" send "dgx-1" never
\* registered.
Nodes == {"agx-1", "agx-7", "dgx-1"}

\* The two parts of a node id that get_node_cluster looks at.
HasSparkOrDgx(node_id) == node_id \in {"dgx-1"}

AgxNumber(node_id) ==
    CASE node_id = "agx-1" -> 1
      [] node_id = "agx-7" -> 7
      [] OTHER -> -1

get_node_cluster(node_id) ==
    IF HasSparkOrDgx(node_id) THEN "spark"
    ELSE LET num == AgxNumber(node_id) IN
         IF num < 0 THEN "default"
         ELSE IF num <= 2 THEN "vision"
         ELSE IF num <= 4 THEN "media-gen"
         ELSE IF num <= 6 THEN "media-proc"
         ELSE IF num <= 9 THEN "llm"
         ELSE IF num = 10 THEN "voice"
         ELSE IF num = 11 THEN "music"
         ELSE "roamer"

\* The JobCreate bodies clients submit.
JobCreates ==
    { [job_type |-> "image_gen", priority |-> "high", target_cluster |-> "llm",
       target_node |-> NoneStr, max_retries |-> 2],
      [job_type |-> "image_gen", priority |-> "high", target_cluster |-> NoneStr,
       target_node |-> NoneStr, max_retries |-> 2],
      [job_type |-> "image_gen", priority |-> "normal", target_cluster |-> NoneStr,
       target_node |-> NoneStr, max_retries |-> 1],
      [job_type |-> "llm_inference", priority |-> "low", target_cluster |-> NoneStr,
       target_node |-> "agx-7", max_retries |-> 1] }

\* The job_types filters workers claim with ({} is "no filter").
JobTypeFilters == { {}, {"llm_inference"} }

\* job_data of create_job.
job_data(c) ==
    [job_type |-> c.job_type, priority |-> c.priority,
     target_cluster |-> c.target_cluster, target_node |-> c.target_node,
     max_retries |-> c.max_retries, status |-> "queued",
     started_at |-> NoTime, completed_at |-> NoTime, assigned_node |-> NoneStr,
     error |-> NoneStr, retry_count |-> 0]

\* queue_key: the list of a priority ({...}.get(job["priority"], QUEUE_NORMAL)).
queue_key(priority) ==
    CASE priority = "high" -> QUEUE_HIGH
      [] priority = "low" -> QUEUE_LOW
      [] OTHER -> QUEUE_NORMAL

\* Redis LREM key 0 value: every occurrence removed.
RECURSIVE LRem(_, _)
LRem(list, v) ==
    IF list = <<>> THEN <<>>
    ELSE IF Head(list) = v THEN LRem(Tail(list), v)
    ELSE <<Head(list)>> \o LRem(Tail(list), v)

RECURSIVE Count(_, _)
Count(list, v) ==
    IF list = <<>> THEN 0
    ELSE (IF Head(list) = v THEN 1 ELSE 0) + Count(Tail(list), v)

\* ------------------------------------------------------------------- state
VARIABLES
    store,       \* Redis: jobs (fleet:job:{id} -> record), queue (the three priority
                 \* lists), processing (fleet:queue:processing), stats (the counters)
    heartbeat,   \* the node ids whose node:{id}:heartbeat key exists
    now,         \* datetime.utcnow()
    nextId,      \* the next fresh uuid
    req,         \* per slot: the handler in flight, its position and locals
    \* Smart Scheduler (backend/services/smart_scheduler.py) and its workers
    vision_nodes,     \* SmartScheduler.nodes: node id -> VisionNode
    vision_queue,     \* the Redis list vision:queue, leftmost element first
    sched,            \* _scheduler_loop: its position, the job and node it holds
    tasks,            \* the dispatch_job_to_node tasks that have not returned
    switch_requested, \* per node: the model of an accepted switch not yet reported
    vision_next,      \* the next vision job id
    \* Auto-scaling (backend/services/autoscaler.py, api/queue.py)
    scaling,          \* what an evaluation reads, and the decisions made on it
    \* Fleet Doctor (backend/services/fleet_doctor.py, doctor_actions.py)
    doctor,           \* FleetDoctor: config, action_cooldowns, actions_this_hour, hour_start
    cycles,           \* the _check_cycle of run() and that of run_once(), and how
                      \* many have been started
    doctor_clock,     \* datetime.utcnow(), in units of 30 minutes
    last_executed,    \* per node: when the Doctor last executed an action on it
    executed_at,      \* the times of the last executed actions other than
                      \* alert_only, as many as are needed to see the hourly
                      \* limit exceeded
    \* Auto-scaling, command by command (autoscaler.py, api/queue.py)
    scaling_state,    \* fleet:scaling:state: last_scale_time
    scaling_clock,    \* datetime.utcnow() of the evaluations, in minutes
    evals,            \* per evaluator: its position, the state it has read,
                      \* its decision and the decision's timestamp
    scale_times,      \* when the last two scaling actions were decided
    \* The problems the Fleet Doctor stores (fleet_doctor.py, api/doctor.py)
    problems_hash,    \* the fields of the Redis hash fleet:doctor:problems
    problems_clock,   \* datetime.utcnow() of the detectors, in seconds
    run_loop,         \* where FleetDoctor.run() is: "check_cycle", "except",
                      \* "sleep", or "raised" once an exception has left it
    redis_up,         \* whether the State Store answers commands
    \* Node registry (backend/api/nodes.py, api/websocket.py)
    nodes_active,     \* the Redis set nodes:active
    writers,          \* the nodes whose report_heartbeat has written the
                      \* heartbeat key and not yet added the node to nodes:active
    offline_reported, \* the nodes the Doctor has reported as offline_node
    listing           \* the reader of the registry in flight: its position,
                      \* node_ids (what SMEMBERS returned), the members not
                      \* yet visited and the nodes collected

queue_vars == <<store, heartbeat, now, nextId, req>>
sched_vars == <<vision_nodes, vision_queue, sched, tasks, switch_requested, vision_next>>
doctor_vars == <<doctor, cycles, doctor_clock, last_executed, executed_at>>
nodes_vars == <<nodes_active, listing, writers, offline_reported>>
cooldown_vars == <<scaling_state, scaling_clock, evals, scale_times>>
problems_vars == <<problems_hash, problems_clock, run_loop, redis_up>>
\* What the handlers of the job queue do not touch.
off_queue_vars == <<sched_vars, scaling, doctor_vars, nodes_vars, cooldown_vars, problems_vars>>
\* What the Smart Scheduler, its API and its workers do not touch.
off_sched_vars == <<queue_vars, scaling, doctor_vars, nodes_vars, cooldown_vars, problems_vars>>
\* What an evaluation of auto-scaling does not touch.
off_scaling_vars == <<queue_vars, sched_vars, doctor_vars, nodes_vars, cooldown_vars, problems_vars>>
\* What the Fleet Doctor does not touch.
off_doctor_vars == <<queue_vars, sched_vars, scaling, nodes_vars, cooldown_vars, problems_vars>>
\* What an evaluation of auto-scaling, followed command by command, does
\* not touch.
off_cooldown_vars == <<queue_vars, sched_vars, scaling, doctor_vars, nodes_vars, problems_vars>>
\* What the storing of the Doctor's problems does not touch.
off_problems_vars ==
    <<queue_vars, sched_vars, scaling, doctor_vars, nodes_vars, cooldown_vars>>
\* What the node registry does not touch: all but the heartbeat keys and
\* nodes:active.
off_registry_vars ==
    <<store, now, nextId, req, sched_vars, scaling, doctor_vars, cooldown_vars,
      problems_vars>>
\* The same, for calls that do not overlap and without the Doctor.
off_nodes_vars == <<writers, offline_reported, off_registry_vars>>

vars == <<queue_vars, sched_vars, scaling, doctor_vars, nodes_vars, cooldown_vars, problems_vars>>

NoRecord == job_data([job_type |-> NoneStr, priority |-> NoneStr,
                      target_cluster |-> NoneStr, target_node |-> NoneStr,
                      max_retries |-> 0])

\* A slot with no handler in flight.  When calls do not overlap, op and code are
\* the last call and the status code of its response (code is 0 while a handler
\* runs).
Rest(op, code) ==
    [op |-> op, pc |-> "done", job_id |-> 0, node_id |-> NoneStr,
     job_types |-> {}, job |-> NoRecord, qi |-> 0, code |-> code]

\* A handler that has passed its first command and goes on at pc.
Running(op, pc, id, node_id, job) ==
    [Rest(op, 0) EXCEPT !.pc = pc, !.job_id = id, !.node_id = node_id, !.job = job]

\* A slot that no handler occupies.
Idle == Rest("none", 0)

InFlight(s) == req[s].pc # "done"

\* A request starts in the first slot that no handler occupies.
Free(s) == ~InFlight(s) /\ \A t \in Slots : t < s => InFlight(t)

\* The job ids a caller can name: create_job has returned them.
KnownIds ==
    {id \in 1..(nextId - 1) : \A s \in Slots : ~(req[s].op = "create" /\ req[s].job_id = id)}

\* The job queue after start-up: Redis is empty, two workers send heartbeats.
queue_Init ==
    /\ store = [jobs |-> << >>,
                queue |-> [q \in {QUEUE_HIGH, QUEUE_NORMAL, QUEUE_LOW} |-> <<>>],
                processing |-> {},
                stats |-> [jobs_queued |-> 0, jobs_completed |-> 0, jobs_failed |-> 0]]
    /\ heartbeat = {"agx-1", "agx-7"}
    /\ now = 0
    /\ nextId = 1
    /\ req = [s \in Slots |-> Rest("none", 0)]

\* --------------------------------------------------------- Smart Scheduler
\* Vision jobs that may be submitted (SpecSched).
MaxVisionJobs == 2

\* The registered vision workers, in the order of SmartScheduler.nodes.
VisionNodes == <<"vision-1", "vision-2">>
VisionNodeIds == {VisionNodes[i] : i \in 1..Len(VisionNodes)}

\* The models of balance_models, in its order.
Models == <<"SDXL_4GB_FP8.safetensors", "RealVisXL_V5_Turbo.safetensors">>
ModelNames == {Models[i] : i \in 1..Len(Models)}

\* A node as POST /nodes/register leaves it: online, no model known, no job,
\* last_heartbeat = time.time().  fresh is time.time() - last_heartbeat < 30.
VisionNode ==
    [status |-> "online", current_model |-> NoneStr, current_job_id |-> 0, fresh |-> TRUE,
     gpu_util |-> 0]

\* The GPU utilisations (percent) a worker's heartbeat can report.
GpuUtils == {0, 50}

NoJob == [job_id |-> 0, target_model |-> NoneStr, priority |-> 0]

\* The priority a generation request can carry (default 0, higher first).
VisionPriorities == {0, 1}

\* The status a worker's send_heartbeat can report.
HeartbeatStatus == {"online", "busy", "switching"}

\* The scheduler after get_scheduler() and the registration of the workers.
sched_Init ==
    /\ vision_nodes = [n \in VisionNodeIds |-> VisionNode]
    /\ vision_queue = << >>
    /\ sched = [pc |-> "get_next_job", job |-> NoJob, node |-> NoneStr]
    /\ tasks = {}
    /\ switch_requested = [n \in VisionNodeIds |-> NoneStr]
    /\ vision_next = 1

\* ------------------------------------------------------------ Auto-scaling
\* The longest queue and the largest fleet an evaluation is given.
MaxQueueDepth == 6
MaxActiveNodes == 3

\* fleet:scaling:config as stored by PUT /scaling/config; the thresholds are
\* held as the percentage threshold * 100 that the code compares with.
ScalingConfig ==
    [enabled : BOOLEAN, min_nodes : {1, 2}, max_nodes : {2, 3},
     target_queue_depth : {4, 5}, scale_up_threshold : {80},
     scale_down_threshold : {20}]

\* What one evaluation reads: the configuration, whether last_scale_time is
\* within the cooldown, the total queue length, the nodes with a heartbeat,
\* their average GPU utilization in percent (0 when there is no node), and
\* how many of them are idle.
ScalingInputs ==
    {i \in [config : ScalingConfig, in_cooldown : BOOLEAN,
            queue_depth : 0..MaxQueueDepth, active_nodes : 0..MaxActiveNodes,
            avg_gpu_util : {0, 19, 20, 21, 81}, idle_nodes : 0..1] :
        /\ i.idle_nodes <= i.active_nodes
        /\ i.active_nodes = 0 => i.avg_gpu_util = 0}

\* No decision has been made.
NoDecision == "pending"

scaling_Init ==
    scaling = [input |-> CHOOSE i \in ScalingInputs : TRUE,
               evaluate |-> NoDecision, evaluate_scaling |-> NoDecision]

\* Any input, before its evaluation.
scaling_Inputs ==
    scaling \in [input : ScalingInputs, evaluate : {NoDecision},
                 evaluate_scaling : {NoDecision}]

\* ------------------------------------------------------------ Fleet Doctor
\* Time is counted in units of 30 minutes.
MaxDoctorClock == 3
\* The _check_cycle calls that may be started.
MaxCycles == 2
\* The problems one detection may return, and the actions one diagnosis may
\* recommend.
MaxProblems == 2
MaxRecommended == 2

\* timedelta(hours=1), in units of 30 minutes.
DoctorHour == 2

\* The nodes the detectors report problems of.
DoctorNodes == {"agx-1"}

\* ACTIONS of doctor_actions.py: the risk_level of an action, and whether it
\* has an endpoint.
DOCTOR_ACTIONS ==
    [disk_cleanup |-> [risk_level |-> "low", endpoint |-> TRUE],
     aggressive_cleanup |-> [risk_level |-> "medium", endpoint |-> TRUE],
     alert_only |-> [risk_level |-> "low", endpoint |-> FALSE]]

ActionNames == DOMAIN DOCTOR_ACTIONS

\* PROBLEM_ACTION_MAP
PROBLEM_ACTION_MAP ==
    [high_disk |-> "disk_cleanup", high_memory |-> "alert_only"]

\* The problems the detectors report, with the auto_fixable and risk_level
\* they give each type.
Problems ==
    {[type |-> "high_disk", node_id |-> n, auto_fixable |-> TRUE, risk_level |-> "low"]
        : n \in DoctorNodes}
    \cup {[type |-> "high_memory", node_id |-> n, auto_fixable |-> FALSE,
           risk_level |-> "medium"] : n \in DoctorNodes}

\* A problem of no node.
NoProblem == [type |-> NoneStr, node_id |-> NoneStr, auto_fixable |-> FALSE,
              risk_level |-> NoneStr]

\* A _check_cycle that is not running.  Of a running one: how many of the
\* detected problems are still to be processed, the problem in hand, how many
\* of the recommended actions are still to be executed for it, and whether
\* they are those of _default_diagnosis.
NoCycle == [pc |-> "done", problems |-> 0, problem |-> NoProblem, actions |-> 0,
            default |-> FALSE, alerts |-> 0]

\* The configurations: auto_fix_levels as FLEET_DOCTOR_AUTO_FIX_LEVELS or
\* fleet:doctor:config give it, a cooldown of 30 minutes, two actions per hour.
DoctorConfigs ==
    [auto_fix : BOOLEAN, auto_fix_levels : {{"low", "medium"}, {"low"}},
     cooldown_minutes : {1}, max_actions_per_hour : {2}]

\* FleetDoctor.__init__ and connect(), at time 0.
doctor_state(config) ==
    /\ doctor = [config |-> config,
                 action_cooldowns |-> [n \in DoctorNodes |-> NoTime],
                 actions_this_hour |-> 0, hour_start |-> 0]
    /\ cycles = [run |-> NoCycle, run_once |-> NoCycle, started |-> 0]
    /\ doctor_clock = 0
    /\ last_executed = [n \in DoctorNodes |-> NoTime]
    /\ executed_at = << >>

doctor_Init ==
    doctor_state([auto_fix |-> TRUE, auto_fix_levels |-> {"low", "medium"},
                  cooldown_minutes |-> 1, max_actions_per_hour |-> 2])

\* ------------------------------------------------------------ Node registry
\* The handlers that read the registry: GET /api/nodes/ and the feed of the
\* metrics websocket.
Readers == {"list_nodes", "get_all_nodes_data"}

NoListing ==
    [pc |-> "idle", who |-> NoneStr, node_ids |-> {}, todo |-> {}, nodes |-> {},
     srem |-> NoneStr]

\* The registry after start-up: the two workers that send heartbeats are
\* members of nodes:active (report_heartbeat adds them), nobody is reading.
nodes_Init ==
    /\ nodes_active = {"agx-1", "agx-7"}
    /\ listing = NoListing
    /\ writers = {}
    /\ offline_reported = {}

\* ------------------------------------------------- Auto-scaling cooldown
\* Largest value of the evaluations' clock, in minutes.
MaxScalingClock == 3
\* cooldown_seconds, in minutes.
ScalingCooldown == 2

\* The AutoScaler ticker and POST /scaling/evaluate.
Evaluators == {"AutoScaler", "api"}

NoEval == [pc |-> "idle", last_scale_time |-> NoTime, action |-> "none", timestamp |-> NoTime]

\* No problem has been stored yet; run() is about to start its first cycle.
problems_Init ==
    /\ problems_hash = {} /\ problems_clock = 0
    /\ run_loop = "check_cycle" /\ redis_up = TRUE

\* No scaling state has been written, nobody is evaluating.
cooldown_Init ==
    /\ scaling_state = [last_scale_time |-> NoTime]
    /\ scaling_clock = 0
    /\ evals = [e \in Evaluators |-> NoEval]
    /\ scale_times = << >>

Init ==
    queue_Init /\ sched_Init /\ scaling_Init /\ doctor_Init /\ nodes_Init /\ cooldown_Init
    /\ problems_Init

\* The wall clock advances.
Tick ==
    /\ now < MaxClock
    /\ now' = now + 1
    /\ UNCHANGED <<store, heartbeat, nextId, req, off_queue_vars>>

\* ---------------------------------------------------------- Redis commands
\* r.set(f"fleet:job:{id}", json.dumps(job))
r_set(S, id, job) == [S EXCEPT !.jobs = (id :> job) @@ @]

\* r.rpush(q, id)
r_rpush(S, q, id) == [S EXCEPT !.queue[q] = Append(@, id)]

\* r.lpush(q, id)
r_lpush(S, q, id) == [S EXCEPT !.queue[q] = <<id>> \o @]

\* A faulty variant, to test C36: the head is read and left in the list.
r_lindex(S, q) == S

\* r.lpop(q): the store after it (the popped id is Head of the list before)
r_lpop(S, q) == [S EXCEPT !.queue[q] = Tail(@)]

\* r.lrem(q, 0, id)
r_lrem(S, q, id) == [S EXCEPT !.queue[q] = LRem(@, id)]

\* r.sadd(QUEUE_PROCESSING, id)
r_sadd(S, id) == [S EXCEPT !.processing = @ \cup {id}]

\* r.srem(QUEUE_PROCESSING, id)
r_srem(S, id) == [S EXCEPT !.processing = @ \ {id}]

\* r.incr("fleet:stats:" + key)
r_incr(S, key) == [S EXCEPT !.stats[key] = @ + 1]

\* ------------------------------------------- local code of the handlers
\* cancel_job: if job["status"] in [COMPLETED, FAILED]: raise HTTPException(400)
cancel_refused(status) == status \in {"completed", "failed"}

\* cancel_job: job["status"] = CANCELLED; job["completed_at"] = utcnow()
cancel_local(job, t) == [job EXCEPT !.status = "cancelled", !.completed_at = t]

\* A faulty variant, to test C9: a retry that accepts cancelled jobs too.
retry_allowed_cancelled(status) == status \in {"failed", "dead", "cancelled"}

\* retry_job: if job["status"] not in [FAILED, DEAD]: raise HTTPException(400)
retry_allowed(status) == status \in {"failed", "dead"}

\* A faulty variant, to test C3: a retry that also starts retry_count again at 0.
retry_reset_count(job) ==
    [job EXCEPT !.status = "queued", !.error = NoneStr, !.started_at = NoTime,
                !.completed_at = NoTime, !.assigned_node = NoneStr,
                !.retry_count = 0]

\* retry_job: the fields it resets
retry_reset(job) ==
    [job EXCEPT !.status = "queued", !.error = NoneStr, !.started_at = NoTime,
                !.completed_at = NoTime, !.assigned_node = NoneStr]

\* claim_job: the three filters: target_node, target_cluster, job_types
compatible(job, node_id, job_types) ==
    /\ ~(job.target_node # NoneStr /\ job.target_node # node_id)
    /\ ~(job.target_cluster # NoneStr /\ job.target_cluster # get_node_cluster(node_id))
    /\ ~(job_types # {} /\ job.job_type \notin job_types)

\* claim_job: where a rejected job is put back: r.lpush(queue, job_id)
put_back(S, q, id) == r_lpush(S, q, id)

\* claim_job: status = PROCESSING; started_at = utcnow(); assigned_node = node_id
claim_local(job, node_id, t) ==
    [job EXCEPT !.status = "processing", !.started_at = t, !.assigned_node = node_id]

\* A faulty variant, to test C2: a complete that accepts any node.
owner_ok_any(job, node_id) == TRUE

\* complete_job: if job.get("assigned_node") != node_id: raise HTTPException(403)
owner_ok(job, node_id) == job.assigned_node = node_id

\* complete_job: if job["retry_count"] >= job.get("max_retries", 3)
retries_exhausted(job) == job.retry_count >= job.max_retries

\* complete_job: the local job after the if error / else and completed_at = now
complete_local(job, error, t) ==
    IF error
    THEN LET j1 == [job EXCEPT !.retry_count = @ + 1] IN
         IF retries_exhausted(j1)
         THEN [j1 EXCEPT !.status = "dead", !.error = "error", !.completed_at = t]
         ELSE [j1 EXCEPT !.status = "queued", !.assigned_node = NoneStr,
                         !.started_at = NoTime, !.error = "error",
                         !.completed_at = t]
    ELSE [job EXCEPT !.status = "completed", !.completed_at = t]

\* complete_job: the command inside the if error / else: incr jobs_failed, rpush,
\* or incr jobs_completed
complete_first(job, error) ==
    IF ~error THEN "incr_completed"
    ELSE IF retries_exhausted([job EXCEPT !.retry_count = @ + 1]) THEN "incr_failed"
    ELSE "rpush"

\* complete_job: what that command does to the store
complete_branch(S, id, job, error) ==
    CASE complete_first(job, error) = "incr_completed" -> r_incr(S, "jobs_completed")
      [] complete_first(job, error) = "incr_failed" -> r_incr(S, "jobs_failed")
      [] OTHER -> r_rpush(S, queue_key(job.priority), id)

\* The counters are let grow to MaxStat: a complete call that would increment a
\* counter beyond it is not made.
stat_room(S, job, error) ==
    CASE complete_first(job, error) = "incr_completed" -> S.stats.jobs_completed < MaxStat
      [] complete_first(job, error) = "incr_failed" -> S.stats.jobs_failed < MaxStat
      [] OTHER -> TRUE

\* ------------------------------------- the handlers, from call to return
\* Each gives the store when the handler returns, the status code of the response
\* and (claim_job) the id of the job returned, 0 for None.
Response(S, code, id) == [store |-> S, code |-> code, job_id |-> id]

create_job(S, c, id) ==
    LET S1 == r_set(S, id, job_data(c))
        S2 == r_rpush(S1, queue_key(c.priority), id)
    IN Response(r_incr(S2, "jobs_queued"), 200, id)

cancel_job(S, id, t) ==
    IF id \notin DOMAIN S.jobs THEN Response(S, 404, id)
    ELSE IF cancel_refused(S.jobs[id].status) THEN Response(S, 400, id)
    ELSE LET S1 == r_set(S, id, cancel_local(S.jobs[id], t))
             S2 == r_lrem(r_lrem(r_lrem(S1, QUEUE_HIGH, id), QUEUE_NORMAL, id),
                          QUEUE_LOW, id)
         IN Response(r_srem(S2, id), 200, id)

retry_job(S, id) ==
    IF id \notin DOMAIN S.jobs THEN Response(S, 404, id)
    ELSE IF ~retry_allowed(S.jobs[id].status) THEN Response(S, 400, id)
    ELSE LET job == retry_reset(S.jobs[id]) IN
         Response(r_rpush(r_set(S, id, job), queue_key(job.priority), id), 200, id)

\* The loop of claim_job from its qi-th queue on.
RECURSIVE claim_loop(_, _, _, _, _)
claim_loop(S, qi, node_id, job_types, t) ==
    IF qi > Len(QueueOrder) THEN Response(S, 200, 0)
    ELSE LET q == QueueOrder[qi] IN
         IF S.queue[q] = <<>> THEN claim_loop(S, qi + 1, node_id, job_types, t)
         ELSE LET id == Head(S.queue[q])
                  S1 == r_lpop(S, q)
              IN IF id \notin DOMAIN S1.jobs
                 THEN claim_loop(S1, qi + 1, node_id, job_types, t)
                 ELSE IF ~compatible(S1.jobs[id], node_id, job_types)
                 THEN claim_loop(put_back(S1, q, id), qi + 1, node_id, job_types, t)
                 ELSE Response(r_sadd(r_set(S1, id, claim_local(S1.jobs[id], node_id, t)),
                                      id), 200, id)

claim_job(S, hb, node_id, job_types, t) ==
    IF node_id \notin hb THEN Response(S, 403, 0)
    ELSE claim_loop(S, 1, node_id, job_types, t)

complete_job(S, id, node_id, error, t) ==
    IF id \notin DOMAIN S.jobs THEN Response(S, 404, id)
    ELSE IF ~owner_ok(S.jobs[id], node_id) THEN Response(S, 403, id)
    ELSE LET job == S.jobs[id]
             S1 == complete_branch(S, id, job, error)
             S2 == r_set(S1, id, complete_local(job, error, t))
         IN Response(r_srem(S2, id), 200, id)

\* ------------------------------------------- calls that do not overlap
\* One call, from its first command to its return; slot 1 keeps the response.
Returned(op, r) ==
    /\ store' = r.store
    /\ req' = [req EXCEPT ![1] = Rest(op, r.code)]

CreateJob(c, limit) ==
    /\ nextId <= limit
    /\ Returned("create", create_job(store, c, nextId))
    /\ nextId' = nextId + 1
    /\ UNCHANGED <<heartbeat, now, off_queue_vars>>

CancelJob(id) ==
    /\ Returned("cancel", cancel_job(store, id, now))
    /\ UNCHANGED <<heartbeat, now, nextId, off_queue_vars>>

RetryJob(id) ==
    /\ Returned("retry", retry_job(store, id))
    /\ UNCHANGED <<heartbeat, now, nextId, off_queue_vars>>

ClaimJob(node_id, job_types) ==
    /\ Returned("claim", claim_job(store, heartbeat, node_id, job_types, now))
    /\ UNCHANGED <<heartbeat, now, nextId, off_queue_vars>>

CompleteJob(id, node_id, error) ==
    /\ id \in DOMAIN store.jobs => stat_room(store, store.jobs[id], error)
    /\ Returned("complete", complete_job(store, id, node_id, error, now))
    /\ UNCHANGED <<heartbeat, now, nextId, off_queue_vars>>

NextSeq ==
    \/ Tick
    \/ \E c \in JobCreates : CreateJob(c, MaxJobs)
    \/ \E id \in 1..nextId : CancelJob(id)
    \/ \E id \in 1..nextId : RetryJob(id)
    \/ \E n \in Nodes, f \in JobTypeFilters : ClaimJob(n, f)
    \/ \E id \in 1..nextId, n \in Nodes, e \in BOOLEAN : CompleteJob(id, n, e)

SpecSeq == Init /\ [][NextSeq]_vars

\* Clients only submit and workers only claim.
NextDrain ==
    \/ \E c \in JobCreates : CreateJob(c, MaxJobsDrain)
    \/ \E n \in Nodes, f \in JobTypeFilters : ClaimJob(n, f)

SpecDrain == Init /\ [][NextDrain]_vars

\* ---------------------------------------------------- overlapping calls
\* One action per Redis command of a handler.  The first command of a handler
\* starts the request in a free slot; the last one, or an early return, frees the
\* slot.

\* create_job: r.set(f"fleet:job:{job_id}", json.dumps(job_data)), with a fresh uuid
create_job_set(s, c, limit) ==
    /\ Free(s)
    /\ nextId <= limit
    /\ store' = r_set(store, nextId, job_data(c))
    /\ nextId' = nextId + 1
    /\ req' = [req EXCEPT ![s] = Running("create", "rpush", nextId, NoneStr, job_data(c))]
    /\ UNCHANGED <<heartbeat, now, off_queue_vars>>

\* create_job: r.rpush(queue_key, job_id)
create_job_rpush(s) ==
    /\ req[s].op = "create" /\ req[s].pc = "rpush"
    /\ store' = r_rpush(store, queue_key(req[s].job.priority), req[s].job_id)
    /\ req' = [req EXCEPT ![s].pc = "incr"]
    /\ UNCHANGED <<heartbeat, now, nextId, off_queue_vars>>

\* create_job: r.incr("fleet:stats:jobs_queued"); return
create_job_incr(s) ==
    /\ req[s].op = "create" /\ req[s].pc = "incr"
    /\ store' = r_incr(store, "jobs_queued")
    /\ req' = [req EXCEPT ![s] = Idle]
    /\ UNCHANGED <<heartbeat, now, nextId, off_queue_vars>>

\* cancel_job: data = r.get(...); 404 / 400; the local job is cancelled
cancel_job_get(s, id) ==
    /\ Free(s)
    /\ req' = [req EXCEPT ![s] =
                 IF id \notin DOMAIN store.jobs THEN Idle
                 ELSE IF cancel_refused(store.jobs[id].status) THEN Idle
                 ELSE Running("cancel", "set", id, NoneStr,
                              cancel_local(store.jobs[id], now))]
    /\ UNCHANGED <<store, heartbeat, now, nextId, off_queue_vars>>

\* cancel_job: r.set(f"fleet:job:{job_id}", json.dumps(job))
cancel_job_set(s) ==
    /\ req[s].op = "cancel" /\ req[s].pc = "set"
    /\ store' = r_set(store, req[s].job_id, req[s].job)
    /\ req' = [req EXCEPT ![s].pc = "lrem", ![s].qi = 1]
    /\ UNCHANGED <<heartbeat, now, nextId, off_queue_vars>>

\* cancel_job: for queue in [HIGH, NORMAL, LOW]: r.lrem(queue, 0, job_id)
cancel_job_lrem(s) ==
    /\ req[s].op = "cancel" /\ req[s].pc = "lrem"
    /\ store' = r_lrem(store, QueueOrder[req[s].qi], req[s].job_id)
    /\ req' = IF req[s].qi < Len(QueueOrder)
              THEN [req EXCEPT ![s].qi = @ + 1]
              ELSE [req EXCEPT ![s].pc = "srem", ![s].qi = 0]
    /\ UNCHANGED <<heartbeat, now, nextId, off_queue_vars>>

\* cancel_job: r.srem(QUEUE_PROCESSING, job_id); return
cancel_job_srem(s) ==
    /\ req[s].op = "cancel" /\ req[s].pc = "srem"
    /\ store' = r_srem(store, req[s].job_id)
    /\ req' = [req EXCEPT ![s] = Idle]
    /\ UNCHANGED <<heartbeat, now, nextId, off_queue_vars>>

\* retry_job: data = r.get(...); 404 / 400; the local job is reset
retry_job_get(s, id) ==
    /\ Free(s)
    /\ req' = [req EXCEPT ![s] =
                 IF id \notin DOMAIN store.jobs THEN Idle
                 ELSE IF ~retry_allowed(store.jobs[id].status) THEN Idle
                 ELSE Running("retry", "set", id, NoneStr, retry_reset(store.jobs[id]))]
    /\ UNCHANGED <<store, heartbeat, now, nextId, off_queue_vars>>

\* retry_job: r.set(f"fleet:job:{job_id}", json.dumps(job))
retry_job_set(s) ==
    /\ req[s].op = "retry" /\ req[s].pc = "set"
    /\ store' = r_set(store, req[s].job_id, req[s].job)
    /\ req' = [req EXCEPT ![s].pc = "rpush"]
    /\ UNCHANGED <<heartbeat, now, nextId, off_queue_vars>>

\* retry_job: r.rpush(queue_key, job_id); return
retry_job_rpush(s) ==
    /\ req[s].op = "retry" /\ req[s].pc = "rpush"
    /\ store' = r_rpush(store, queue_key(req[s].job.priority), req[s].job_id)
    /\ req' = [req EXCEPT ![s] = Idle]
    /\ UNCHANGED <<heartbeat, now, nextId, off_queue_vars>>

\* claim_job: `continue`: the next queue of the loop, or `return None` after the last
claim_continue(s) ==
    IF req[s].qi < Len(QueueOrder)
    THEN [req EXCEPT ![s].pc = "lpop", ![s].qi = @ + 1, ![s].job_id = 0,
                     ![s].job = NoRecord]
    ELSE [req EXCEPT ![s] = Idle]

\* claim_job: node_data = r.get(f"node:{node_id}:heartbeat"); 403 when absent
claim_job_heartbeat(s, node_id, job_types) ==
    /\ Free(s)
    /\ req' = [req EXCEPT ![s] =
                 IF node_id \notin heartbeat THEN Idle
                 ELSE [Running("claim", "lpop", 0, node_id, NoRecord)
                         EXCEPT !.qi = 1, !.job_types = job_types]]
    /\ UNCHANGED <<store, heartbeat, now, nextId, off_queue_vars>>

\* claim_job: job_id = r.lpop(queue); `continue` when the list is empty
claim_job_lpop(s) ==
    /\ req[s].op = "claim" /\ req[s].pc = "lpop"
    /\ LET q == QueueOrder[req[s].qi] IN
       IF store.queue[q] = <<>>
       THEN /\ req' = claim_continue(s)
            /\ UNCHANGED store
       ELSE /\ store' = r_lpop(store, q)
            /\ req' = [req EXCEPT ![s].pc = "get", ![s].job_id = Head(store.queue[q])]
    /\ UNCHANGED <<heartbeat, now, nextId, off_queue_vars>>

\* claim_job: job_data = r.get(f"fleet:job:{job_id}"); the filters; the local job
\* is claimed
claim_job_get(s) ==
    /\ req[s].op = "claim" /\ req[s].pc = "get"
    /\ LET id == req[s].job_id IN
       req' = IF id \notin DOMAIN store.jobs THEN claim_continue(s)
              ELSE IF ~compatible(store.jobs[id], req[s].node_id, req[s].job_types)
              THEN [req EXCEPT ![s].pc = "lpush", ![s].job = store.jobs[id]]
              ELSE [req EXCEPT ![s].pc = "set",
                       ![s].job = claim_local(store.jobs[id], req[s].node_id, now)]
    /\ UNCHANGED <<store, heartbeat, now, nextId, off_queue_vars>>

\* claim_job: r.lpush(queue, job_id); continue
claim_job_lpush(s) ==
    /\ req[s].op = "claim" /\ req[s].pc = "lpush"
    /\ store' = put_back(store, QueueOrder[req[s].qi], req[s].job_id)
    /\ req' = claim_continue(s)
    /\ UNCHANGED <<heartbeat, now, nextId, off_queue_vars>>

\* claim_job: r.set(f"fleet:job:{job_id}", json.dumps(job))
claim_job_set(s) ==
    /\ req[s].op = "claim" /\ req[s].pc = "set"
    /\ store' = r_set(store, req[s].job_id, req[s].job)
    /\ req' = [req EXCEPT ![s].pc = "sadd"]
    /\ UNCHANGED <<heartbeat, now, nextId, off_queue_vars>>

\* claim_job: r.sadd(QUEUE_PROCESSING, job_id); return job
claim_job_sadd(s) ==
    /\ req[s].op = "claim" /\ req[s].pc = "sadd"
    /\ store' = r_sadd(store, req[s].job_id)
    /\ req' = [req EXCEPT ![s] = Idle]
    /\ UNCHANGED <<heartbeat, now, nextId, off_queue_vars>>

\* complete_job: data = r.get(...); 404 / 403; now = utcnow(); the if error / else
\* on the local job.  A worker reports on a job after its own claim has returned.
complete_job_get(s, id, node_id, error) ==
    /\ Free(s)
    /\ \A t \in Slots : ~(req[t].op = "claim" /\ InFlight(t) /\ req[t].node_id = node_id)
    /\ id \in DOMAIN store.jobs => stat_room(store, store.jobs[id], error)
    /\ req' = [req EXCEPT ![s] =
                 IF id \notin DOMAIN store.jobs THEN Idle
                 ELSE IF ~owner_ok(store.jobs[id], node_id) THEN Idle
                 ELSE Running("complete", complete_first(store.jobs[id], error), id,
                              node_id, complete_local(store.jobs[id], error, now))]
    /\ UNCHANGED <<store, heartbeat, now, nextId, off_queue_vars>>

\* complete_job: r.incr(jobs_failed) | r.rpush(queue_key, job_id) | r.incr(jobs_completed)
complete_job_branch(s) ==
    /\ req[s].op = "complete"
    /\ req[s].pc \in {"incr_failed", "rpush", "incr_completed"}
    /\ store' = CASE req[s].pc = "incr_failed" -> r_incr(store, "jobs_failed")
                  [] req[s].pc = "incr_completed" -> r_incr(store, "jobs_completed")
                  [] OTHER -> r_rpush(store, queue_key(req[s].job.priority), req[s].job_id)
    /\ req' = [req EXCEPT ![s].pc = "set"]
    /\ UNCHANGED <<heartbeat, now, nextId, off_queue_vars>>

\* complete_job: r.set(f"fleet:job:{job_id}", json.dumps(job))
complete_job_set(s) ==
    /\ req[s].op = "complete" /\ req[s].pc = "set"
    /\ store' = r_set(store, req[s].job_id, req[s].job)
    /\ req' = [req EXCEPT ![s].pc = "srem"]
    /\ UNCHANGED <<heartbeat, now, nextId, off_queue_vars>>

\* complete_job: r.srem(QUEUE_PROCESSING, job_id); return
complete_job_srem(s) ==
    /\ req[s].op = "complete" /\ req[s].pc = "srem"
    /\ store' = r_srem(store, req[s].job_id)
    /\ req' = [req EXCEPT ![s] = Idle]
    /\ UNCHANGED <<heartbeat, now, nextId, off_queue_vars>>

\* The submissions and the job_types filters of the overlapping calls: the jobs
\* with max_retries = 1 (one for any one aimed at a node), claimed with no
\* filter.
JobCreatesConcurrent == {c \in JobCreates : c.max_retries = 1}

JobTypeFiltersConcurrent == { {} }

\* The commands of the requests in flight interleave.  The calls overlap within
\* one reading of the clock.
Next ==
    \E s \in Slots :
        \/ \E c \in JobCreatesConcurrent : create_job_set(s, c, MaxJobsConcurrent)
        \/ create_job_rpush(s)
        \/ create_job_incr(s)
        \/ \E id \in KnownIds \cup {nextId} : cancel_job_get(s, id)
        \/ cancel_job_set(s)
        \/ cancel_job_lrem(s)
        \/ cancel_job_srem(s)
        \/ \E id \in KnownIds \cup {nextId} : retry_job_get(s, id)
        \/ retry_job_set(s)
        \/ retry_job_rpush(s)
        \/ \E n \in Nodes, f \in JobTypeFiltersConcurrent : claim_job_heartbeat(s, n, f)
        \/ claim_job_lpop(s)
        \/ claim_job_get(s)
        \/ claim_job_lpush(s)
        \/ claim_job_set(s)
        \/ claim_job_sadd(s)
        \/ \E id \in KnownIds \cup {nextId}, n \in Nodes, e \in BOOLEAN :
              complete_job_get(s, id, n, e)
        \/ complete_job_branch(s)
        \/ complete_job_set(s)
        \/ complete_job_srem(s)

Spec == Init /\ [][Next]_vars

\* ------------------------------------------------------------ properties
Terminal(status) == status \in {"completed", "failed", "dead", "cancelled"}

\* The priority lists in which a job id occurs.
ListsOf(S, id) == {q \in DOMAIN S.queue : Count(S.queue[q], id) > 0}

\* Rank of a priority list in claim_job's order (1 is served first).
Rank(q) == CHOOSE i \in 1..Len(QueueOrder) : QueueOrder[i] = q

Quiescent == \A s \in Slots : ~InFlight(s)

\* The step is the call `op` with response r, made with no overlap.
IsCall(op, r) == store' = r.store /\ req'[1] = Rest(op, r.code)

\* The jobs waiting in a priority list that the worker could take.
Claimable(S, node_id, job_types) ==
    {id \in DOMAIN S.jobs :
        ListsOf(S, id) # {} /\ compatible(S.jobs[id], node_id, job_types)}

\* C1: whenever no call is in progress, every job is in exactly one of these places:
\* exactly one priority list, the processing set, or a terminal status.
C1_ExactlyOnePlace ==
    Quiescent =>
        \A id \in DOMAIN store.jobs :
            LET a == Cardinality(ListsOf(store, id)) = 1
                b == id \in store.processing
                c == Terminal(store.jobs[id].status)
            IN (a /\ ~b /\ ~c) \/ (~a /\ b /\ ~c) \/ (~a /\ ~b /\ c)

\* C2: a complete call by a node that is not the job's assigned_node is refused
\* (403) and leaves the job records, the lists, the processing set and the
\* counters as they were; a complete call that changes any of them comes from the
\* assigned node.
C2_CompleteOnlyByOwner ==
    [][\A id \in DOMAIN store.jobs, n \in Nodes, e \in BOOLEAN :
          LET r == complete_job(store, id, n, e, now) IN
          (IsCall("complete", r) /\ store.jobs[id].assigned_node # n)
              => (r.code = 403 /\ store' = store)]_vars

\* C2 witness: the only job is assigned to a worker and the last call, a complete,
\* was refused with 403.
C2_Witness ==
    /\ req[1] = Rest("complete", 403)
    /\ DOMAIN store.jobs = {1}
    /\ store.jobs[1].status = "processing"
    /\ store.jobs[1].assigned_node \in Nodes

\* C3: in calls that do not overlap, no step lowers a job's retry_count, and a job
\* becomes dead only with retry_count >= max_retries.
C3_RetryCountMonotone ==
    [][\A id \in DOMAIN store.jobs :
          /\ store'.jobs[id].retry_count >= store.jobs[id].retry_count
          /\ (store'.jobs[id].status = "dead" /\ store.jobs[id].status # "dead")
                => store'.jobs[id].retry_count >= store'.jobs[id].max_retries]_vars

\* C3 witness: a job that died and was retried keeps its retry_count.
C3_Witness ==
    \E id \in DOMAIN store.jobs :
        /\ req[1] = Rest("retry", 200)
        /\ store.jobs[id].status = "queued"
        /\ store.jobs[id].retry_count >= store.jobs[id].max_retries
        /\ store.jobs[id].retry_count > 0

\* C4: claim never returns a job while a job of strictly higher priority that the
\* worker could take waits in its list.
C4_StrictPriority ==
    [][\A n \in Nodes, f \in JobTypeFilters :
          LET r == claim_job(store, heartbeat, n, f, now) IN
          (IsCall("claim", r) /\ r.job_id # 0)
              => ~\E h \in Claimable(store, n, f) :
                    \E q \in ListsOf(store, h) :
                        Rank(q) < Rank(queue_key(store.jobs[r.job_id].priority))]_vars

\* C5: claim returns None only if no job in any priority list is compatible with
\* the worker.
C5_NoneOnlyIfNothingCompatible ==
    [][\A n \in Nodes, f \in JobTypeFilters :
          LET r == claim_job(store, heartbeat, n, f, now) IN
          (IsCall("claim", r) /\ r.code = 200 /\ r.job_id = 0)
              => Claimable(store, n, f) = {}]_vars

\* C6: once a job is completed, dead or cancelled, no claim or complete call
\* changes its status or puts its id into a priority list.
C6_TerminalAbsorbing ==
    [][\A id \in DOMAIN store.jobs :
          (store.jobs[id].status \in {"completed", "dead", "cancelled"}
             /\ req'[1].op \in {"claim", "complete"})
              => /\ store'.jobs[id].status = store.jobs[id].status
                 /\ ListsOf(store', id) \subseteq ListsOf(store, id)]_vars

\* C7: cancel on a job whose status is completed, failed or dead is refused and
\* changes nothing.
C7_CancelRefusedOnTerminal ==
    [][\A id \in DOMAIN store.jobs :
          LET r == cancel_job(store, id, now) IN
          (IsCall("cancel", r)
             /\ store.jobs[id].status \in {"completed", "failed", "dead"})
              => (r.code = 400 /\ store' = store)]_vars

\* C8: cancel on an already-cancelled job leaves the stored record and all queues
\* exactly as they were.
C8_CancelIdempotent ==
    [][\A id \in DOMAIN store.jobs :
          LET r == cancel_job(store, id, now) IN
          (IsCall("cancel", r) /\ store.jobs[id].status = "cancelled")
              => store' = store]_vars

\* C9: retry is refused with no state change unless the job is failed or dead; when
\* accepted, the job is queued with assigned_node, started_at, completed_at and
\* error cleared, its id is in the list of its own priority and it is not in the
\* processing set.
C9_RetryContract ==
    [][\A id \in DOMAIN store.jobs :
          LET r == retry_job(store, id) IN
          IsCall("retry", r) =>
              IF store.jobs[id].status \notin {"failed", "dead"}
              THEN r.code = 400 /\ store' = store
              ELSE /\ r.code = 200
                   /\ store'.jobs[id].status = "queued"
                   /\ store'.jobs[id].assigned_node = NoneStr
                   /\ store'.jobs[id].started_at = NoTime
                   /\ store'.jobs[id].completed_at = NoTime
                   /\ store'.jobs[id].error = NoneStr
                   /\ Count(store'.queue[queue_key(store.jobs[id].priority)], id) >= 1
                   /\ id \notin store'.processing]_vars

\* C9 witness: a dead job was retried: it is queued again, in the list of its
\* priority, with the transient fields cleared.
C9_Witness ==
    \E id \in DOMAIN store.jobs :
        /\ req[1] = Rest("retry", 200)
        /\ store.jobs[id].status = "queued"
        /\ store.jobs[id].retry_count > 0
        /\ store.jobs[id].error = NoneStr
        /\ Count(store.queue[queue_key(store.jobs[id].priority)], id) >= 1

\* C10: with max_retries = 2 a job is re-queued by its first and by its second
\* error completion and becomes dead only by the third.
C10_DeadOnThirdError ==
    [][\A id \in DOMAIN store.jobs :
          (/\ req'[1] = Rest("complete", 200)
           /\ store.jobs[id].max_retries = 2
           /\ store.jobs[id].status = "processing"
           /\ store'.jobs[id].retry_count = store.jobs[id].retry_count + 1)
              => /\ store.jobs[id].retry_count < 2 => store'.jobs[id].status = "queued"
                 /\ store'.jobs[id].status = "dead" => store.jobs[id].retry_count >= 2]_vars

\* ======================================================== Smart Scheduler
\* backend/services/smart_scheduler.py and api/vision_scheduler.py.  One
\* SmartScheduler exists (get_scheduler); its _scheduler_loop is one asyncio task,
\* every dispatch_job_to_node is a task of its own, and the API handlers run
\* between their awaits.  The worker containers (containers/sdxl-trt/app.py)
\* are the environment: the answer of a worker to a request and the status and
\* model of a heartbeat are inputs, a heartbeat reaching the backend some time
\* after the worker composed it.  gpu_util is not modelled: it is whatever the
\* workers report, so min(.., key=gpu_util) can return any of its candidates.

\* VisionNode.is_available without its test of current_job_id.
is_available_by_status(node) ==
    node.status = "online" /\ node.fresh

\* VisionNode.is_available
is_available(node) ==
    node.status = "online" /\ node.current_job_id = 0 /\ node.fresh

\* VisionNode.is_online
is_online(node) == node.fresh

\* get_available_nodes(model); model = NoneStr is model=None
get_available_nodes(model) ==
    {n \in VisionNodeIds :
        /\ is_available(vision_nodes[n])
        /\ (model = NoneStr \/ vision_nodes[n].current_model = model)}

\* find_best_node_for_job: the nodes it can return; none when it returns None.
\* min(nodes, key=lambda n: n.gpu_util): the nodes it can return (the first
\* of the smallest in the order of registration; any of them here).
lowest_gpu_util(nodes) ==
    {n \in nodes : \A o \in nodes : vision_nodes[n].gpu_util <= vision_nodes[o].gpu_util}

\* A faulty variant, to test C27: the node's model is not looked at.
find_best_node_any_model(job) == lowest_gpu_util(get_available_nodes(NoneStr))

find_best_node_for_job(job) ==
    IF get_available_nodes(job.target_model) # {}
    THEN lowest_gpu_util(get_available_nodes(job.target_model))
    ELSE lowest_gpu_util(get_available_nodes(NoneStr))

\* switch_node_model after the worker answered 200: the node record, and the
\* switch that is now outstanding.
switch_node_model(n, new_model) ==
    /\ vision_nodes' = [vision_nodes EXCEPT ![n].status = "switching",
                                            ![n].current_model = NoneStr]
    /\ switch_requested' = [switch_requested EXCEPT ![n] = new_model]

\* asyncio.create_task(self.dispatch_job_to_node(job, node))
create_task(job, n) == tasks \cup {[job |-> job, node |-> n, pc |-> "created"]}

\* POST /generate of the API: enqueue_job LPUSHes the job.
queue_generation(model, priority) ==
    /\ vision_next <= MaxVisionJobs
    /\ vision_queue' = <<[job_id |-> vision_next, target_model |-> model,
                          priority |-> priority]>> \o vision_queue
    /\ vision_next' = vision_next + 1
    /\ UNCHANGED <<vision_nodes, sched, tasks, switch_requested, off_sched_vars>>

\* _scheduler_loop, lines 314-327 and 339-345: RPOP the next job and find a node.
\* No node: the job is LPUSHed back.  A node with the model: the dispatch task is
\* created.  Otherwise the switch request is sent.  A task created in the last
\* round has run up to its first await before the RPOP returns, because the
\* event loop runs ready tasks in the order they were scheduled.
scheduler_get_next_job ==
    /\ sched.pc = "get_next_job"
    /\ vision_queue # << >>
    /\ \A t \in tasks : t.pc # "created"
    /\ LET job == vision_queue[Len(vision_queue)]
           rest == SubSeq(vision_queue, 1, Len(vision_queue) - 1)
       IN  IF find_best_node_for_job(job) = {}
           THEN /\ vision_queue' = <<job>> \o rest
                /\ UNCHANGED <<sched, tasks>>
           ELSE \E n \in find_best_node_for_job(job) :
                  /\ vision_queue' = rest
                  /\ IF vision_nodes[n].current_model # job.target_model
                     THEN /\ sched' = [pc |-> "switch_node_model", job |-> job, node |-> n]
                          /\ UNCHANGED tasks
                     ELSE /\ tasks' = create_task(job, n)
                          /\ UNCHANGED sched
    /\ UNCHANGED <<vision_nodes, switch_requested, vision_next, off_sched_vars>>

\* _scheduler_loop, lines 330-337: the answer to the switch request.  Anything
\* but a 200 (a 409, a timeout, a network error) fails the job.
scheduler_switch_node_model(ok) ==
    /\ sched.pc = "switch_node_model"
    /\ IF ok
       THEN /\ switch_node_model(sched.node, sched.job.target_model)
            /\ sched' = [sched EXCEPT !.pc = "_wait_for_model_load"]
       ELSE /\ sched' = [pc |-> "get_next_job", job |-> NoJob, node |-> NoneStr]
            /\ UNCHANGED <<vision_nodes, switch_requested>>
    /\ UNCHANGED <<vision_queue, tasks, vision_next, off_sched_vars>>

\* What a poll of _wait_for_model_load tests.
model_loaded(n, target_model) ==
    vision_nodes[n].current_model = target_model /\ vision_nodes[n].status = "online"

\* _wait_for_model_load returns, True after a poll that saw the model or False
\* after 120 s of polls that did not; line 337 drops the value, and lines
\* 339-345 create the dispatch task either way.
scheduler_wait_for_model_load(timed_out) ==
    /\ sched.pc = "_wait_for_model_load"
    /\ timed_out = ~model_loaded(sched.node, sched.job.target_model)
    /\ tasks' = create_task(sched.job, sched.node)
    /\ sched' = [pc |-> "get_next_job", job |-> NoJob, node |-> NoneStr]
    /\ UNCHANGED <<vision_nodes, vision_queue, switch_requested,
                   vision_next, off_sched_vars>>

\* dispatch_job_to_node, lines 273-276: the task's first run marks the node.
dispatch_mark_busy(t) ==
    /\ t.pc = "created"
    /\ vision_nodes' = [vision_nodes EXCEPT ![t.node].status = "busy",
                                            ![t.node].current_job_id = t.job.job_id]
    /\ tasks' = (tasks \ {t}) \cup {[t EXCEPT !.pc = "register_node"]}
    /\ UNCHANGED <<vision_queue, sched, switch_requested, vision_next, off_sched_vars>>

\* dispatch_job_to_node, lines 279-282: the job is sent to the worker's /generate.
dispatch_generate(t) ==
    /\ t.pc = "register_node"
    /\ tasks' = (tasks \ {t}) \cup {[t EXCEPT !.pc = "generate"]}
    /\ UNCHANGED <<vision_nodes, vision_queue, sched,
                   switch_requested, vision_next, off_sched_vars>>

\* A faulty variant, to test C28: a failed request ends the dispatch and
\* leaves the node as it is.
dispatch_abandoned(t) ==
    /\ t.pc = "generate"
    /\ tasks' = tasks \ {t}
    /\ UNCHANGED <<vision_nodes, vision_queue, sched, switch_requested,
                   vision_next, off_sched_vars>>

\* dispatch_job_to_node, lines 284-305: the worker answered or the request
\* failed; both paths mark the node online with no job.
dispatch_done(t) ==
    /\ t.pc = "generate"
    /\ vision_nodes' = [vision_nodes EXCEPT ![t.node].status = "online",
                                            ![t.node].current_job_id = 0]
    /\ tasks' = tasks \ {t}
    /\ UNCHANGED <<vision_queue, sched, switch_requested, vision_next, off_sched_vars>>

\* POST /nodes/heartbeat: update_node_heartbeat with the fields of the request.
\* The node has then reported current_model.
update_node_heartbeat(n, current_model, gpu_util, status) ==
    /\ vision_nodes' = [vision_nodes EXCEPT
          ![n].fresh = TRUE,
          ![n].gpu_util = gpu_util,
          ![n].status = status,
          ![n].current_model = IF current_model # NoneStr THEN current_model ELSE @]
    /\ switch_requested' = [switch_requested EXCEPT
          ![n] = IF current_model = @ THEN NoneStr ELSE @]
    /\ UNCHANGED <<vision_queue, sched, tasks, vision_next, off_sched_vars>>

\* Thirty seconds pass without a heartbeat of the node.
heartbeat_stale(n) ==
    /\ vision_nodes[n].fresh
    /\ vision_nodes' = [vision_nodes EXCEPT ![n].fresh = FALSE]
    /\ UNCHANGED <<vision_queue, sched, tasks, switch_requested,
                   vision_next, off_sched_vars>>

\* _node_monitor_loop: stale nodes go offline.
node_monitor_loop ==
    /\ \E n \in VisionNodeIds : ~is_online(vision_nodes[n]) /\ vision_nodes[n].status # "offline"
    /\ vision_nodes' = [n \in VisionNodeIds |->
          IF ~is_online(vision_nodes[n]) /\ vision_nodes[n].status # "offline"
          THEN [vision_nodes[n] EXCEPT !.status = "offline"]
          ELSE vision_nodes[n]]
    /\ UNCHANGED <<vision_queue, sched, tasks, switch_requested,
                   vision_next, off_sched_vars>>

\* POST /models/switch/{node_id}: refused unless the node is online; when the
\* worker does not answer 200 nothing changes.
manual_switch_node_model(n, model_name) ==
    /\ is_online(vision_nodes[n])
    /\ switch_node_model(n, model_name)
    /\ UNCHANGED <<vision_queue, sched, tasks, vision_next, off_sched_vars>>

\* POST /balance, lines 276-296: the online nodes in the order of
\* SmartScheduler.nodes, the i-th assigned models[i % len(models)]; every node
\* whose current_model differs is asked to switch; accepted are the workers
\* that answer 200.  The handler's requests are taken together, as one step.
online_nodes == SelectSeq(VisionNodes, LAMBDA n : is_online(vision_nodes[n]))

balance_target(n) ==
    LET i == CHOOSE k \in 1..Len(online_nodes) : online_nodes[k] = n
    IN  Models[((i - 1) % Len(Models)) + 1]

balance_models(accepted) ==
    /\ Len(online_nodes) >= 2
    /\ LET switched == {n \in accepted :
                          /\ is_online(vision_nodes[n])
                          /\ vision_nodes[n].current_model # balance_target(n)}
       IN  /\ switched # {}
           /\ vision_nodes' = [n \in VisionNodeIds |->
                 IF n \in switched
                 THEN [vision_nodes[n] EXCEPT !.status = "switching",
                                              !.current_model = NoneStr]
                 ELSE vision_nodes[n]]
           /\ switch_requested' = [n \in VisionNodeIds |->
                 IF n \in switched THEN balance_target(n) ELSE switch_requested[n]]
    /\ UNCHANGED <<vision_queue, sched, tasks, vision_next, off_sched_vars>>

NextSched ==
    \/ \E model \in ModelNames : queue_generation(model, 0)
    \/ scheduler_get_next_job
    \/ \E ok \in BOOLEAN : scheduler_switch_node_model(ok)
    \/ \E timed_out \in BOOLEAN : scheduler_wait_for_model_load(timed_out)
    \/ \E t \in tasks : dispatch_mark_busy(t)
    \/ \E t \in tasks : dispatch_generate(t)
    \/ \E t \in tasks : dispatch_done(t)
    \/ \E n \in VisionNodeIds, current_model \in ModelNames \cup {NoneStr},
          status \in HeartbeatStatus : update_node_heartbeat(n, current_model, 0, status)
    \/ \E n \in VisionNodeIds : heartbeat_stale(n)
    \/ node_monitor_loop
    \/ \E n \in VisionNodeIds, model \in ModelNames :
          manual_switch_node_model(n, model)
    \/ \E accepted \in SUBSET VisionNodeIds : balance_models(accepted)

SpecSched == Init /\ [][NextSched]_vars

\* The node that a step of the scheduler loop selects for the job it popped:
\* the loop goes on to request a switch on it, or creates its dispatch task.
selected(n) ==
    /\ scheduler_get_next_job
    /\ \/ sched'.pc = "switch_node_model" /\ sched'.node = n
       \/ \E t \in tasks' \ tasks : t.node = n

\* C11: whenever dispatch_job_to_node sends a job to a worker's /generate, the
\* node's current_model equals the job's target_model at that moment, also
\* when the wait for a requested model has timed out.
C11_DispatchOnlyWithTargetModel ==
    [][\A t \in tasks :
         dispatch_generate(t) => vision_nodes[t.node].current_model = t.job.target_model]_vars

\* C12: at any time at most one dispatch task that has not returned is
\* associated with a given worker, whatever the scheduler loop, the dispatch
\* tasks, the heartbeats and the node monitor do in between.
C12_OneDispatchPerWorker ==
    \A n \in VisionNodeIds : Cardinality({t \in tasks : t.node = n}) <= 1

\* C12's case: a job is in flight on a worker whose status a heartbeat has set
\* back to online, the node is fresh, and the scheduler loop is about to pop
\* another job.
C12_Witness ==
    \E t \in tasks :
        /\ t.pc = "generate"
        /\ vision_nodes[t.node].status = "online"
        /\ vision_nodes[t.node].fresh
        /\ vision_nodes[t.node].current_model = t.job.target_model
        /\ sched.pc = "get_next_job"
        /\ vision_queue # << >>
        /\ vision_queue[Len(vision_queue)].target_model = t.job.target_model

\* C13: a node with an accepted model switch whose model it has not yet
\* reported is never selected by the scheduler loop for a job, whatever
\* heartbeats arrived in the meantime.
C13_SwitchingNodeNeverSelected ==
    [][\A n \in VisionNodeIds : selected(n) => switch_requested[n] = NoneStr]_vars

\* ============================================================ Auto-scaling
\* AutoScaler.evaluate and POST /scaling/evaluate decide on the values they
\* have read; both are functions of those values.

\* AutoScaler.evaluate, line 233, with one reason taken as enough.
enough_reasons_one(scale_down_reasons) == Cardinality(scale_down_reasons) >= 1

\* AutoScaler.evaluate, line 233: both reasons are needed.
enough_reasons(scale_down_reasons) == Cardinality(scale_down_reasons) >= 2

\* AutoScaler.evaluate: the action of its decision.
evaluate(i) ==
    LET config == i.config
        scale_up_reasons ==
            {x \in {"queue", "gpu"} :
                \/ x = "queue" /\ i.queue_depth > config.target_queue_depth
                \/ x = "gpu" /\ i.avg_gpu_util > config.scale_up_threshold}
        scale_down_reasons ==
            {x \in {"queue", "gpu"} :
                \/ x = "queue" /\ i.queue_depth < config.target_queue_depth \div 2
                \/ x = "gpu" /\ i.avg_gpu_util < config.scale_down_threshold}
    IN  IF ~config.enabled THEN "none"
        ELSE IF i.in_cooldown THEN "none"
        ELSE IF scale_up_reasons # {} /\ i.active_nodes < config.max_nodes THEN "scale_up"
        ELSE IF i.active_nodes > config.min_nodes
                /\ enough_reasons(scale_down_reasons) /\ i.idle_nodes > 0
             THEN "scale_down"
        ELSE "none"

\* POST /scaling/evaluate: the action of its answer.
evaluate_scaling(i) ==
    LET config == i.config
    IN  IF ~config.enabled THEN "none"
        ELSE IF i.in_cooldown THEN "none"
        ELSE IF i.queue_depth > config.target_queue_depth
                /\ i.active_nodes < config.max_nodes
             THEN IF i.avg_gpu_util > config.scale_up_threshold THEN "scale_up" ELSE "none"
        ELSE IF i.queue_depth < config.target_queue_depth \div 2
                /\ i.active_nodes > config.min_nodes
             THEN IF i.avg_gpu_util < config.scale_down_threshold THEN "scale_down"
                  ELSE "none"
        ELSE "none"

AutoScaler_evaluate ==
    /\ scaling.evaluate = NoDecision
    /\ scaling' = [scaling EXCEPT !.evaluate = evaluate(scaling.input)]
    /\ UNCHANGED off_scaling_vars

api_evaluate_scaling ==
    /\ scaling.evaluate_scaling = NoDecision
    /\ scaling' = [scaling EXCEPT !.evaluate_scaling = evaluate_scaling(scaling.input)]
    /\ UNCHANGED off_scaling_vars

NextScaling == AutoScaler_evaluate \/ api_evaluate_scaling

InitScaling ==
    queue_Init /\ sched_Init /\ scaling_Inputs /\ doctor_Init /\ nodes_Init /\ cooldown_Init
    /\ problems_Init

SpecScaling == InitScaling /\ [][NextScaling]_vars

\* C14: every scale_down decision, of AutoScaler.evaluate and of POST
\* /scaling/evaluate, is made on values with queue depth < target_queue_depth/2
\* and average GPU utilization < scale_down_threshold and active nodes >
\* min_nodes; one condition alone never gives scale_down.
C14_ScaleDownNeedsBoth ==
    "scale_down" \in {scaling.evaluate, scaling.evaluate_scaling} =>
        /\ 2 * scaling.input.queue_depth < scaling.input.config.target_queue_depth
        /\ scaling.input.avg_gpu_util < scaling.input.config.scale_down_threshold
        /\ scaling.input.active_nodes > scaling.input.config.min_nodes

\* C14's case: both evaluations have decided scale_down on the same values.
C14_Witness ==
    scaling.evaluate = "scale_down" /\ scaling.evaluate_scaling = "scale_down"

\* ============================================================ Fleet Doctor
\* FleetDoctor._check_cycle is run by the periodic loop run() and by run_once()
\* (POST /doctor/run-now), on the same FleetDoctor object; the two interleave at
\* their awaits.  The problems a detection returns and the diagnosis of the LLM
\* are inputs.  Not modelled: POST
\* /doctor/action, which executes an action on request without any gate.

\* The diagnoses the LLM can answer with; of recommended_actions, the length.
Diagnoses ==
    [can_auto_fix : BOOLEAN, risk_level : {"low", "medium", "high"},
     recommended_actions : 0..MaxRecommended]

\* A faulty variant, to test C32: the fallback recommends the strongest
\* cleanup for every problem type.
default_action_strongest(problem) == "aggressive_cleanup"

\* _default_diagnosis: PROBLEM_ACTION_MAP.get(problem.type.value, "alert_only")
default_action(problem) ==
    IF problem.type \in DOMAIN PROBLEM_ACTION_MAP
    THEN PROBLEM_ACTION_MAP[problem.type]
    ELSE "alert_only"

default_diagnosis(problem) ==
    [can_auto_fix |-> problem.auto_fixable /\ default_action(problem) # "alert_only",
     risk_level |-> problem.risk_level,
     recommended_actions |-> IF default_action(problem) # "alert_only" THEN 1 ELSE 0]

\* The cooldown test of _check_cycle, lines 166-170.
in_cooldown(node_id) ==
    /\ doctor.action_cooldowns[node_id] # NoTime
    /\ doctor_clock - doctor.action_cooldowns[node_id] < doctor.config.cooldown_minutes

\* The rate limit test of _check_cycle, line 173.
rate_limited == doctor.actions_this_hour >= doctor.config.max_actions_per_hour

\* The gate of _check_cycle, line 190.
may_auto_fix(diagnosis) ==
    diagnosis.can_auto_fix /\ diagnosis.risk_level \in doctor.config.auto_fix_levels

\* A faulty variant, to test C31: the auto_fix setting is not looked at.
auto_fix_assumed == FALSE

\* if not self.config["auto_fix"], line 158
auto_fix_disabled == ~doctor.config.auto_fix

\* The for loop of _check_cycle goes on to the next problem, or the cycle ends.
next_problem(cycle) ==
    IF cycle.problems > 0
    THEN [cycle EXCEPT !.pc = "problem", !.problem = NoProblem, !.actions = 0,
                       !.default = FALSE]
    ELSE NoCycle

\* The for loop over recommended_actions goes on, or the problem is done.
next_action(cycle) ==
    IF cycle.actions > 1
    THEN [cycle EXCEPT !.pc = "execute", !.actions = @ - 1]
    ELSE next_problem(cycle)

\* The last max_actions_per_hour + 1 of the execution times.
last_executions(times) ==
    IF Len(times) > doctor.config.max_actions_per_hour + 1
    THEN Tail(times) ELSE times

\* _execute_action, lines 330-333: the cooldown and the counter.
count_action(node_id) ==
    [doctor EXCEPT !.action_cooldowns[node_id] = doctor_clock,
                   !.actions_this_hour = @ + 1]

\* Thirty minutes pass.
doctor_tick ==
    /\ doctor_clock < MaxDoctorClock
    /\ doctor_clock' = doctor_clock + 1
    /\ UNCHANGED <<doctor, cycles, last_executed, executed_at, off_doctor_vars>>

\* _check_cycle, lines 131-151: the hourly reset and the detection, which
\* returns a list of problems.  The model keeps the length of a list, of the
\* problems and of the recommended actions of a diagnosis; what an element is,
\* is drawn when the loop comes to it.
check_cycle(c, problems) ==
    /\ cycles[c].pc = "done"
    /\ cycles.started < MaxCycles
    /\ doctor' = IF doctor_clock - doctor.hour_start > DoctorHour
                 THEN [doctor EXCEPT !.actions_this_hour = 0, !.hour_start = doctor_clock]
                 ELSE doctor
    /\ cycles' = [cycles EXCEPT
                    ![c] = [NoCycle EXCEPT !.pc = "problem", !.problems = problems],
                    !.started = @ + 1]
    /\ UNCHANGED <<doctor_clock, last_executed, executed_at, off_doctor_vars>>

\* _check_cycle, lines 154-179: with auto_fix off the alert is published and
\* the loop goes on; else the cooldown and rate limit tests of the next
\* problem, and when both pass the diagnosis is requested.
check_problem(c, problem) ==
    /\ cycles[c].pc = "problem"
    /\ LET cycle == [cycles[c] EXCEPT !.problems = @ - 1, !.problem = problem]
       IN  cycles' = [cycles EXCEPT ![c] =
              IF auto_fix_disabled
              THEN [next_problem(cycle) EXCEPT !.alerts = cycle.alerts + 1]
              ELSE IF in_cooldown(problem.node_id) \/ rate_limited
              THEN next_problem(cycle)
              ELSE [cycle EXCEPT !.pc = "diagnose"]]
    /\ UNCHANGED <<doctor, doctor_clock, last_executed, executed_at, off_doctor_vars>>

\* _check_cycle, lines 179-205: the diagnosis arrives, of the LLM or
\* (default), when the LLM fails, of _default_diagnosis, and passes the gate or
\* not.
diagnose(c, diagnosis, default) ==
    /\ cycles[c].pc = "diagnose"
    /\ default => diagnosis = default_diagnosis(cycles[c].problem)
    /\ cycles' = [cycles EXCEPT ![c] =
          IF may_auto_fix(diagnosis) /\ diagnosis.recommended_actions > 0
          THEN [cycles[c] EXCEPT !.pc = "execute",
                                 !.actions = diagnosis.recommended_actions,
                                 !.default = default]
          ELSE next_problem(cycles[c])]
    /\ UNCHANGED <<doctor, doctor_clock, last_executed, executed_at, off_doctor_vars>>

\* _execute_action, lines 317-328: ActionExecutor.execute is called with the
\* next recommended action.  An action with an endpoint is POSTed to the node;
\* alert_only returns at once, and the counting of lines 330-333 follows
\* without an await in between.
execute(c, action_name) ==
    /\ cycles[c].pc = "execute"
    /\ cycles[c].default => action_name = default_action(cycles[c].problem)
    /\ LET node_id == cycles[c].problem.node_id
       IN  IF DOCTOR_ACTIONS[action_name].endpoint
           THEN /\ last_executed' = [last_executed EXCEPT ![node_id] = doctor_clock]
                /\ executed_at' = last_executions(Append(executed_at, doctor_clock))
                /\ cycles' = [cycles EXCEPT ![c].pc = "executed"]
                /\ UNCHANGED doctor
           ELSE /\ doctor' = count_action(node_id)
                /\ cycles' = [cycles EXCEPT ![c] = next_action(cycles[c])]
                /\ UNCHANGED <<last_executed, executed_at>>
    /\ UNCHANGED <<doctor_clock, off_doctor_vars>>

\* _execute_action, lines 330-335: the node has answered, or the request failed.
executed(c) ==
    /\ cycles[c].pc = "executed"
    /\ doctor' = count_action(cycles[c].problem.node_id)
    /\ cycles' = [cycles EXCEPT ![c] = next_action(cycles[c])]
    /\ UNCHANGED <<doctor_clock, last_executed, executed_at, off_doctor_vars>>

NextDoctor ==
    \/ doctor_tick
    \/ \E c \in {"run", "run_once"}, problems \in 1..MaxProblems : check_cycle(c, problems)
    \/ \E c \in {"run", "run_once"}, problem \in Problems : check_problem(c, problem)
    \/ \E c \in {"run", "run_once"}, diagnosis \in Diagnoses, default \in BOOLEAN :
          diagnose(c, diagnosis, default)
    \/ \E c \in {"run", "run_once"}, action_name \in ActionNames : execute(c, action_name)
    \/ \E c \in {"run", "run_once"} : executed(c)

InitDoctor ==
    /\ queue_Init /\ sched_Init /\ scaling_Init /\ nodes_Init /\ cooldown_Init
    /\ problems_Init
    /\ \E config \in DoctorConfigs : doctor_state(config)

SpecDoctor == InitDoctor /\ [][NextDoctor]_vars

\* The node of the problem a cycle is working on.
problem_node(c) == cycles[c].problem.node_id

\* C15: the Doctor never executes an action whose risk_level in the catalogue
\* is outside the configured auto_fix_levels, whatever the LLM's diagnosis says.
C15_OnlyAutoFixLevels ==
    [][\A c \in {"run", "run_once"}, action_name \in ActionNames :
         execute(c, action_name) =>
            DOCTOR_ACTIONS[action_name].risk_level \in doctor.config.auto_fix_levels]_vars

\* C16: two successive executions of actions on the same node are at least
\* cooldown_minutes apart, within a diagnosis, within a cycle and across the
\* cycles of run() and run_once().
C16_CooldownBetweenActions ==
    [][\A c \in {"run", "run_once"}, action_name \in ActionNames :
         (execute(c, action_name) /\ DOCTOR_ACTIONS[action_name].endpoint
             /\ last_executed[problem_node(c)] # NoTime)
         => doctor_clock - last_executed[problem_node(c)]
               >= doctor.config.cooldown_minutes]_vars

\* C17: in any rolling hour at most max_actions_per_hour actions other than
\* alert_only are executed: max_actions_per_hour + 1 executions in a row are
\* never less than an hour apart from first to last.
C17_HourlyLimit ==
    Len(executed_at) > doctor.config.max_actions_per_hour =>
        executed_at[Len(executed_at)] - executed_at[1] >= DoctorHour

\* C18: executing alert_only never increments actions_this_hour.
C18_AlertOnlyNotCounted ==
    [][\A c \in {"run", "run_once"} :
         execute(c, "alert_only") =>
            doctor'.actions_this_hour = doctor.actions_this_hour]_vars

\* ===================================================== Node registry
\* nodes:active and the heartbeat keys, as the handlers of api/nodes.py and
\* api/websocket.py write and read them.  A reader is followed command by
\* command: SMEMBERS, then for each member in the order Python iterates the
\* set (any order) one GET and, when the key is absent, one SREM.  The
\* writers run between two reads of the registry, not inside one: calls
\* that do not overlap.  What a reader returns per member is the heartbeat
\* document (list_nodes adds the Swarm fields to it); the model keeps the
\* member's id.

\* r.srem("nodes:active", nid)
srem_kept(active, nid) == active

srem(active, nid) == active \ {nid}

\* POST /{node_id}/heartbeat and POST /heartbeat: SET node:{id}:heartbeat
\* with a TTL of 120 s, then SADD nodes:active.
report_heartbeat(node_id) ==
    /\ listing.pc = "idle"
    /\ heartbeat' = heartbeat \cup {node_id}
    /\ nodes_active' = nodes_active \cup {node_id}
    /\ UNCHANGED <<listing, off_nodes_vars>>

\* POST /register: SADD nodes:active; no heartbeat key is written.
register_node(node_id) ==
    /\ listing.pc = "idle"
    /\ nodes_active' = nodes_active \cup {node_id}
    /\ UNCHANGED <<heartbeat, listing, off_nodes_vars>>

\* Redis drops node:{id}:heartbeat when its TTL has run out.
heartbeat_expires(node_id) ==
    /\ listing.pc = "idle"
    /\ node_id \in heartbeat
    /\ heartbeat' = heartbeat \ {node_id}
    /\ UNCHANGED <<nodes_active, listing, off_nodes_vars>>

\* nodes = []; node_ids = await r.smembers("nodes:active")
list_smembers(who) ==
    /\ listing.pc = "idle"
    /\ listing' = [NoListing EXCEPT !.pc = "loop", !.who = who,
                                    !.node_ids = nodes_active,
                                    !.todo = nodes_active]
    /\ UNCHANGED <<heartbeat, nodes_active, off_nodes_vars>>

\* One turn of `for nid in node_ids`: data = await r.get(heartbeat key);
\* if data: nodes.append(...) else: await r.srem("nodes:active", nid)
list_get(nid) ==
    /\ listing.pc = "loop"
    /\ nid \in listing.todo
    /\ IF nid \in heartbeat
          THEN /\ listing' = [listing EXCEPT !.todo = @ \ {nid}, !.nodes = @ \cup {nid}]
               /\ UNCHANGED nodes_active
          ELSE /\ listing' = [listing EXCEPT !.todo = @ \ {nid}]
               /\ nodes_active' = srem(nodes_active, nid)
    /\ UNCHANGED <<heartbeat, off_nodes_vars>>

\* return nodes
list_return ==
    /\ listing.pc = "loop"
    /\ listing.todo = {}
    /\ listing' = NoListing
    /\ UNCHANGED <<heartbeat, nodes_active, off_nodes_vars>>

NextNodes ==
    \/ \E node_id \in Nodes : report_heartbeat(node_id)
    \/ \E node_id \in Nodes : register_node(node_id)
    \/ \E node_id \in Nodes : heartbeat_expires(node_id)
    \/ \E who \in Readers : list_smembers(who)
    \/ \E nid \in Nodes : list_get(nid)
    \/ list_return

SpecNodes == Init /\ [][NextNodes]_vars

RECURSIVE create_jobs(_, _, _)
create_jobs(S, cs, id) ==
    IF cs = << >> THEN S
    ELSE create_jobs(create_job(S, Head(cs), id).store, Tail(cs), id + 1)

EmptyStore ==
    [jobs |-> << >>,
     queue |-> [q \in {QUEUE_HIGH, QUEUE_NORMAL, QUEUE_LOW} |-> <<>>],
     processing |-> {},
     stats |-> [jobs_queued |-> 0, jobs_completed |-> 0, jobs_failed |-> 0]]

InitClaim ==
    /\ \E cs \in [1..MaxJobsClaim -> JobCreates] : store = create_jobs(EmptyStore, cs, 1)
    /\ heartbeat = {"agx-1", "agx-7"}
    /\ now = 0
    /\ nextId = MaxJobsClaim + 1
    /\ req = [s \in Slots |-> Rest("none", 0)]
    /\ sched_Init /\ scaling_Init /\ doctor_Init /\ nodes_Init /\ cooldown_Init
    /\ problems_Init

NextClaim ==
    \/ \E s \in Slots, n \in Nodes, f \in JobTypeFilters : claim_job_heartbeat(s, n, f)
    \/ \E s \in Slots : claim_job_lpop(s)
    \/ \E s \in Slots : claim_job_get(s)
    \/ \E s \in Slots : claim_job_lpush(s)
    \/ \E s \in Slots : claim_job_set(s)
    \/ \E s \in Slots : claim_job_sadd(s)

SpecClaim == InitClaim /\ [][NextClaim]_vars

\* The jobs of list q that wait for a worker: those in the list, and those a
\* claim in flight has popped and will push back as incompatible with its
\* worker.
waiting(q) ==
    {store.queue[q][i] : i \in 1..Len(store.queue[q])} \cup
    {req[t].job_id : t \in {u \in Slots :
        /\ req[u].op = "claim" /\ req[u].pc \in {"get", "lpush"}
        /\ QueueOrder[req[u].qi] = q
        /\ req[u].job_id \in DOMAIN store.jobs
        /\ ~compatible(store.jobs[req[u].job_id], req[u].node_id, req[u].job_types)}}

\* C20: FIFO within a priority.  When claim(w) returns a job, no job of the
\* same priority list that is compatible with w and was enqueued earlier is
\* still waiting - in the list, or popped by another worker's claim that
\* will push it back as incompatible.
C20_FifoWithinPriority ==
    [][\A s \in Slots : claim_job_sadd(s) =>
          \A k \in waiting(QueueOrder[req[s].qi]) :
             (k \in DOMAIN store.jobs
                /\ compatible(store.jobs[k], req[s].node_id, req[s].job_types))
             => k >= req[s].job_id]_vars

\* C21: when claim has popped a job incompatible with its worker, the
\* command that puts it back leaves it at the tail of the same priority
\* list, behind every job already there, and leaves the job records as
\* they were.
C21_PutBackAtTail ==
    [][\A s \in Slots : claim_job_lpush(s) =>
          /\ store'.queue = [store.queue EXCEPT ![QueueOrder[req[s].qi]] =
                                 Append(@, req[s].job_id)]
          /\ store'.jobs = store.jobs]_vars

\* C22: the failed counter goes up only in a call that takes a job from
\* processing to dead, and then by exactly one; every other call, a
\* complete on a job that is already dead included, leaves it as it is.
C22_FailedCountsDeaths ==
    [][LET died == {id \in DOMAIN store.jobs :
                      /\ store.jobs[id].status = "processing"
                      /\ store'.jobs[id].status = "dead"}
       IN store'.stats.jobs_failed = store.stats.jobs_failed + Cardinality(died)]_vars

\* A call that acts on job id: the operator's cancel or retry, or a
\* worker's complete.
acts_on(id) ==
    \/ CancelJob(id)
    \/ RetryJob(id)
    \/ \E n \in Nodes, e \in BOOLEAN : CompleteJob(id, n, e)

\* C23: a job that is processing stays in the processing set with status
\* processing through every step that is not a call on that job (nothing
\* in the background reclaims it), and the operator's retry(id) returns
\* it to queued.
C23_StuckUntilRetried ==
    [][\A id \in DOMAIN store.jobs :
          (store.jobs[id].status = "processing" /\ id \in store.processing) =>
             /\ ~acts_on(id) =>
                   (store'.jobs[id].status = "processing" /\ id \in store'.processing)
             /\ RetryJob(id) => store'.jobs[id].status = "queued"]_vars

\* C24: when the wait for a requested model runs out before the worker has
\* reported the target model with status online, the scheduler marks the
\* worker offline and creates no dispatch of the job to it.
C24_TimeoutFailsJob ==
    [][scheduler_wait_for_model_load(TRUE) =>
          /\ vision_nodes'[sched.node].status = "offline"
          /\ \A t \in tasks' \ tasks : t.job # sched.job]_vars

\* C25: when no worker is available for the job the scheduler has popped,
\* the job is put back where it was taken from: it is the job the next
\* get_next_job returns, in front of every job enqueued after it.
C25_RequeuedJobStaysNext ==
    [][(/\ scheduler_get_next_job
        /\ find_best_node_for_job(vision_queue[Len(vision_queue)]) = {})
       => vision_queue' = vision_queue]_vars

\* ------------------------------------------------ vision jobs with priority
\* The scheduler loop and its dispatches over requests of every priority.
\* The workers send no heartbeat after registration and the API's switch
\* and balance calls are not made: none of them looks at the queue.
NextPriority ==
    \/ \E model \in ModelNames, priority \in VisionPriorities :
          queue_generation(model, priority)
    \/ scheduler_get_next_job
    \/ \E ok \in BOOLEAN : scheduler_switch_node_model(ok)
    \/ \E timed_out \in BOOLEAN : scheduler_wait_for_model_load(timed_out)
    \/ \E t \in tasks : dispatch_mark_busy(t)
    \/ \E t \in tasks : dispatch_generate(t)
    \/ \E t \in tasks : dispatch_done(t)

SpecPriority == Init /\ [][NextPriority]_vars

\* C26: the job get_next_job returns has the highest priority of all jobs
\* in vision:queue, and among the jobs of that priority it is the one
\* created first.
C26_HighestPriorityFirst ==
    [][scheduler_get_next_job =>
          LET job == vision_queue[Len(vision_queue)] IN
          \A i \in 1..Len(vision_queue) :
             \/ vision_queue[i].priority < job.priority
             \/ /\ vision_queue[i].priority = job.priority
                /\ vision_queue[i].job_id >= job.job_id]_vars

\* ------------------------------------------------------- routing of one job
\* The scheduler loop over one queued job and workers in any state their
\* heartbeats can have left them in: a model or none, a GPU utilisation,
\* status online or busy, fresh or stale.
InitRouting ==
    /\ queue_Init /\ scaling_Init /\ doctor_Init /\ nodes_Init /\ cooldown_Init
    /\ problems_Init
    /\ vision_nodes \in [VisionNodeIds ->
          [status : {"online", "busy"}, current_model : ModelNames \cup {NoneStr},
           current_job_id : {0}, fresh : BOOLEAN, gpu_util : GpuUtils]]
    /\ \E model \in ModelNames :
          vision_queue = <<[job_id |-> 1, target_model |-> model, priority |-> 0]>>
    /\ sched = [pc |-> "get_next_job", job |-> NoJob, node |-> NoneStr]
    /\ tasks = {}
    /\ switch_requested = [n \in VisionNodeIds |-> NoneStr]
    /\ vision_next = 2

NextRouting ==
    \/ scheduler_get_next_job
    \/ \E ok \in BOOLEAN : scheduler_switch_node_model(ok)
    \/ \E timed_out \in BOOLEAN : scheduler_wait_for_model_load(timed_out)
    \/ \E t \in tasks : dispatch_mark_busy(t)
    \/ \E t \in tasks : dispatch_generate(t)
    \/ \E t \in tasks : dispatch_done(t)

SpecRouting == InitRouting /\ [][NextRouting]_vars

SpecDispatch ==
    /\ Init /\ [][NextPriority]_vars
    /\ WF_vars(\E t \in tasks : dispatch_mark_busy(t))
    /\ WF_vars(\E t \in tasks : dispatch_generate(t))
    /\ WF_vars(\E t \in tasks : dispatch_done(t))

\* C28: every dispatch ends, and the step that ends it leaves the worker
\* with no current job and status online.
C28_DispatchEndsNodeFree ==
    /\ \A j \in 1..MaxVisionJobs :
          (\E t \in tasks : t.job.job_id = j) ~> ~(\E t \in tasks : t.job.job_id = j)
    /\ [][\A t \in tasks :
             (\A u \in tasks' : u.job # t.job) =>
                /\ vision_nodes'[t.node].status = "online"
                /\ vision_nodes'[t.node].current_job_id = 0]_vars

\* A dispatch whose request is out: the worker is busy with the job.
C28_Witness ==
    \E t \in tasks :
       /\ t.pc = "generate"
       /\ vision_nodes[t.node].status = "busy"
       /\ vision_nodes[t.node].current_job_id = t.job.job_id

\* C29: every scale_up decision, of AutoScaler.evaluate and of POST
\* /scaling/evaluate, is made on values with queue depth >
\* target_queue_depth and average GPU utilization > scale_up_threshold and
\* active nodes < max_nodes, all three together.
C29_ScaleUpNeedsAll ==
    "scale_up" \in {scaling.evaluate, scaling.evaluate_scaling} =>
        /\ scaling.input.queue_depth > scaling.input.config.target_queue_depth
        /\ scaling.input.avg_gpu_util > scaling.input.config.scale_up_threshold
        /\ scaling.input.active_nodes < scaling.input.config.max_nodes

\* ================================================= Auto-scaling cooldown
\* The two evaluations followed command by command over the shared key
\* fleet:scaling:state.  Each reads the state, tests the cooldown, gathers
\* the metrics, decides, and writes the state; other evaluations run at
\* the awaits in between.  The configuration is enabled and is not changed.

\* if datetime.utcnow() < last_scale_time + cooldown_seconds
cooldown_active(last_scale_time) ==
    last_scale_time # NoTime /\ scaling_clock < last_scale_time + ScalingCooldown

\* What an evaluation that has passed the cooldown test can be given.
EvaluationInputs == {i \in ScalingInputs : i.config.enabled /\ ~i.in_cooldown}

\* The last two times of scaling actions, t added.
decided(times, t) == IF Len(times) < 2 THEN Append(times, t) ELSE <<times[2], t>>

scaling_tick ==
    /\ scaling_clock < MaxScalingClock
    /\ scaling_clock' = scaling_clock + 1
    /\ UNCHANGED <<scaling_state, evals, scale_times, off_cooldown_vars>>

\* get_config, get_state and the cooldown test: autoscaler.py 159-176,
\* queue.py 485-500.  In the cooldown the evaluation returns none at once.
evaluation_get_state(e) ==
    /\ evals[e].pc = "idle"
    /\ evals' = [evals EXCEPT ![e] =
          IF cooldown_active(scaling_state.last_scale_time)
          THEN [NoEval EXCEPT !.last_scale_time = scaling_state.last_scale_time]
          ELSE [NoEval EXCEPT !.pc = "decide",
                              !.last_scale_time = scaling_state.last_scale_time]]
    /\ UNCHANGED <<scaling_state, scaling_clock, scale_times, off_cooldown_vars>>

\* AutoScaler.evaluate, lines 179-238: the metrics are read and the
\* decision is made, with its timestamp.
AutoScaler_decide(i) ==
    /\ evals["AutoScaler"].pc = "decide"
    /\ evals' = [evals EXCEPT !["AutoScaler"].pc = "set_state",
                              !["AutoScaler"].action = evaluate(i),
                              !["AutoScaler"].timestamp = scaling_clock]
    /\ scale_times' = IF evaluate(i) # "none" THEN decided(scale_times, scaling_clock)
                      ELSE scale_times
    /\ UNCHANGED <<scaling_state, scaling_clock, off_cooldown_vars>>

\* AutoScaler.evaluate, lines 241-260: the state it read, updated, is
\* written back.
AutoScaler_set_state ==
    /\ evals["AutoScaler"].pc = "set_state"
    /\ scaling_state' =
          [last_scale_time |-> IF evals["AutoScaler"].action # "none"
                               THEN evals["AutoScaler"].timestamp
                               ELSE evals["AutoScaler"].last_scale_time]
    /\ evals' = [evals EXCEPT !["AutoScaler"].pc = "idle"]
    /\ UNCHANGED <<scaling_clock, scale_times, off_cooldown_vars>>

\* POST /scaling/evaluate, lines 503-543: after get_queue_stats the decision
\* is made and a new state written, with last_scale_time only for an action.
api_decide_set_state(i) ==
    /\ evals["api"].pc = "decide"
    /\ scaling_state' =
          [last_scale_time |-> IF evaluate_scaling(i) # "none" THEN scaling_clock
                               ELSE NoTime]
    /\ evals' = [evals EXCEPT !["api"].pc = "idle",
                              !["api"].action = evaluate_scaling(i),
                              !["api"].timestamp = scaling_clock]
    /\ scale_times' = IF evaluate_scaling(i) # "none"
                      THEN decided(scale_times, scaling_clock) ELSE scale_times
    /\ UNCHANGED <<scaling_clock, off_cooldown_vars>>

NextCooldown ==
    \/ scaling_tick
    \/ \E e \in Evaluators : evaluation_get_state(e)
    \/ \E i \in EvaluationInputs : AutoScaler_decide(i)
    \/ AutoScaler_set_state
    \/ \E i \in EvaluationInputs : api_decide_set_state(i)

SpecCooldown == Init /\ [][NextCooldown]_vars

\* C30: two successive scaling actions, whichever evaluation decided
\* them, are at least cooldown_seconds apart: an evaluation within the
\* cooldown of a scale_up or scale_down returns none.
C30_CooldownBetweenScalings ==
    Len(scale_times) = 2 => scale_times[2] - scale_times[1] >= ScalingCooldown

MaxProblemsClock == 3

problems_tick ==
    /\ problems_clock < MaxProblemsClock
    /\ problems_clock' = problems_clock + 1
    /\ UNCHANGED <<problems_hash, run_loop, redis_up, off_problems_vars>>

\* The ids the detectors give the problems they find at this second.
problem_ids(problems) ==
    {[type |-> p.type, node_id |-> p.node_id, at |-> problems_clock] : p \in problems}

\* _check_cycle, lines 135-136: the detection returns problems, and
\* _store_problems writes them: HSET sets the fields of the mapping and leaves
\* the other fields of the hash as they are; with no problem the key is deleted.
store_problems(problems) ==
    /\ problems_hash' = IF problems # {}
                        THEN problems_hash \cup problem_ids(problems)
                        ELSE {}
    /\ UNCHANGED <<problems_clock, run_loop, redis_up, off_problems_vars>>

\* dismiss_problem of api/doctor.py: HDEL of one field.
dismiss_problem(problem_id) ==
    /\ problems_hash' = problems_hash \ {problem_id}
    /\ UNCHANGED <<problems_clock, run_loop, redis_up, off_problems_vars>>

NextProblems ==
    \/ problems_tick
    \/ \E problems \in SUBSET Problems : store_problems(problems)
    \/ \E problem_id \in problems_hash : dismiss_problem(problem_id)

SpecProblems == Init /\ [][NextProblems]_vars

\* C33: when a cycle has stored its problems, fleet:doctor:problems holds
\* exactly the problems that cycle detected; a problem the cycle did not
\* detect is no longer stored.
C33_StoredEqualsDetected ==
    [][\A problems \in SUBSET Problems :
          store_problems(problems) => problems_hash' = problem_ids(problems)]_vars

\* ------------------------------------------------------ the periodic loop
\* FleetDoctor.run(): while self.running, a cycle, then the sleep of the
\* interval.  stop() is not modelled: the Doctor is not stopped.

\* The State Store goes down, or comes back.
redis_fails ==
    /\ redis_up /\ redis_up' = FALSE
    /\ UNCHANGED <<problems_hash, problems_clock, run_loop, off_problems_vars>>

redis_recovers ==
    /\ ~redis_up /\ redis_up' = TRUE
    /\ UNCHANGED <<problems_hash, problems_clock, run_loop, off_problems_vars>>

\* run(), lines 112-118: the try block.  _check_cycle stores the problems it
\* detected; it raises when the State Store does not answer, or for another
\* error, and the except branch is entered.
run_check_cycle(problems, error) ==
    /\ run_loop = "check_cycle"
    /\ IF redis_up /\ ~error
       THEN /\ problems_hash' = IF problems # {}
                                THEN problems_hash \cup problem_ids(problems)
                                ELSE {}
            /\ run_loop' = "sleep"
       ELSE /\ run_loop' = "except"
            /\ UNCHANGED problems_hash
    /\ UNCHANGED <<problems_clock, redis_up, off_problems_vars>>

\* run(), lines 116-118: the except branch awaits _publish_event("error"),
\* which is a PUBLISH with no try around it: when the State Store does not
\* answer, the exception leaves run() and its task is over.
run_except ==
    /\ run_loop = "except"
    /\ run_loop' = IF redis_up THEN "sleep" ELSE "raised"
    /\ UNCHANGED <<problems_hash, problems_clock, redis_up, off_problems_vars>>

\* run(), line 120: the sleep of the interval is over, self.running holds.
run_sleep ==
    /\ run_loop = "sleep"
    /\ run_loop' = "check_cycle"
    /\ UNCHANGED <<problems_hash, problems_clock, redis_up, off_problems_vars>>

run_step ==
    \/ \E problems \in SUBSET Problems, error \in BOOLEAN : run_check_cycle(problems, error)
    \/ run_except
    \/ run_sleep

NextLoop ==
    \/ problems_tick
    \/ redis_fails
    \/ redis_recovers
    \/ \E problems \in SUBSET Problems, error \in BOOLEAN : run_check_cycle(problems, error)
    \/ run_except
    \/ run_sleep

\* The event loop resumes run() when the await it is at has returned or
\* raised, and the sleep of the interval ends.
SpecLoop == Init /\ [][NextLoop]_vars /\ WF_vars(run_step)

\* C34: after a cycle that raised an error, another cycle is eventually
\* started.
C34_FailedCycleIsFollowed == (run_loop = "except") ~> (run_loop = "check_cycle")

\* ================================================= one worker keeps claiming
\* The queue holds MaxJobsKeepClaiming jobs; one worker calls claim again and
\* again, each call returning before the next, and nothing else runs.
MaxJobsKeepClaiming == 3

ClaimingWorker == "agx-1"

InitKeepClaiming ==
    /\ \E cs \in [1..MaxJobsKeepClaiming -> JobCreates] :
          store = create_jobs(EmptyStore, cs, 1)
    /\ heartbeat = {"agx-1", "agx-7"}
    /\ now = 0
    /\ nextId = MaxJobsKeepClaiming + 1
    /\ req = [s \in Slots |-> Rest("none", 0)]
    /\ sched_Init /\ scaling_Init /\ doctor_Init /\ nodes_Init /\ cooldown_Init
    /\ problems_Init

NextKeepClaiming == \E f \in JobTypeFilters : ClaimJob(ClaimingWorker, f)

\* The worker polls: a claim with no job_types filter is always called again.
SpecKeepClaiming ==
    /\ InitKeepClaiming /\ [][NextKeepClaiming]_vars
    /\ WF_vars(ClaimJob(ClaimingWorker, {}))

\* C35: a queued job that is compatible with the worker is eventually
\* returned to it, whatever job is ahead of it in its priority list.
C35_CompatibleJobIsClaimed ==
    \A id \in 1..MaxJobsKeepClaiming :
        (store.jobs[id].status = "queued" /\ compatible(store.jobs[id], ClaimingWorker, {}))
           ~> (store.jobs[id].assigned_node = ClaimingWorker)

\* C36: two claims never both return the same job.  When a claim writes its
\* worker as the assigned_node of a job, the job has no assigned_node yet and
\* no other claim in flight holds the same job id.
C36_OneClaimPerJob ==
    [][\A s \in Slots : claim_job_set(s) =>
          /\ store.jobs[req[s].job_id].assigned_node = NoneStr
          /\ \A t \in Slots \ {s} :
                ~(req[t].op = "claim" /\ req[t].pc \in {"get", "lpush", "set", "sadd"}
                    /\ req[t].job_id = req[s].job_id)]_vars

\* The claims of two workers overlap, and each is about to return a job.
C36_Witness ==
    \E s, t \in Slots :
        /\ req[s].op = "claim" /\ req[s].pc = "sadd"
        /\ req[t].op = "claim" /\ req[t].pc = "sadd"
        /\ req[s].node_id # req[t].node_id

\* ========================================== Node registry, overlapping calls
\* The heartbeats, the readers and the Doctor's detector run at once; each
\* Redis command is a step.  POST /register is left out: it writes no
\* heartbeat key.

\* report_heartbeat: r.set(heartbeat key, ..., ex=120)
heartbeat_set(node_id) ==
    /\ node_id \notin writers
    /\ heartbeat' = heartbeat \cup {node_id}
    /\ writers' = writers \cup {node_id}
    /\ UNCHANGED <<nodes_active, listing, offline_reported, off_registry_vars>>

\* report_heartbeat: r.sadd("nodes:active", node_id)
heartbeat_sadd(node_id) ==
    /\ node_id \in writers
    /\ nodes_active' = nodes_active \cup {node_id}
    /\ writers' = writers \ {node_id}
    /\ UNCHANGED <<heartbeat, listing, offline_reported, off_registry_vars>>

\* Redis drops node:{id}:heartbeat when its TTL has run out.
heartbeat_ttl(node_id) ==
    /\ node_id \in heartbeat
    /\ heartbeat' = heartbeat \ {node_id}
    /\ UNCHANGED <<nodes_active, listing, writers, offline_reported, off_registry_vars>>

\* One turn of `for nid in node_ids`, its first command:
\* data = await r.get(heartbeat key); if data: nodes.append(...)
reader_get(nid) ==
    /\ listing.pc = "loop"
    /\ nid \in listing.todo
    /\ listing' = IF nid \in heartbeat
                  THEN [listing EXCEPT !.todo = @ \ {nid}, !.nodes = @ \cup {nid}]
                  ELSE [listing EXCEPT !.todo = @ \ {nid}, !.pc = "srem", !.srem = nid]
    /\ UNCHANGED <<heartbeat, nodes_active, writers, offline_reported, off_registry_vars>>

\* else: await r.srem("nodes:active", nid)
reader_srem ==
    /\ listing.pc = "srem"
    /\ nodes_active' = srem(nodes_active, listing.srem)
    /\ listing' = [listing EXCEPT !.pc = "loop", !.srem = NoneStr]
    /\ UNCHANGED <<heartbeat, writers, offline_reported, off_registry_vars>>

\* OfflineNodeDetector.detect, in a cycle of the Doctor: the members of
\* nodes:active that have no heartbeat key are reported as offline_node.
OfflineNodeDetector_detect ==
    /\ offline_reported' = offline_reported \cup (nodes_active \ heartbeat)
    /\ UNCHANGED <<heartbeat, nodes_active, listing, writers, off_registry_vars>>

\* The nodes that send heartbeats.
registry_step(senders) ==
    \/ \E node_id \in senders : heartbeat_set(node_id)
    \/ \E node_id \in senders : heartbeat_sadd(node_id)
    \/ \E node_id \in Nodes : heartbeat_ttl(node_id)
    \/ \E who \in Readers : list_smembers(who)
    \/ \E nid \in Nodes : reader_get(nid)
    \/ reader_srem
    \/ list_return
    \/ OfflineNodeDetector_detect

NextRegistry == registry_step(Nodes)

SpecRegistry == Init /\ [][NextRegistry]_vars

\* A node that has stopped: it has sent heartbeats and sends no more.
SilentNode == "agx-7"

NextSilent == registry_step(Nodes \ {SilentNode})

\* The Doctor's loop runs its cycles, and each runs the detector.
SpecSilent == Init /\ [][NextSilent]_vars /\ WF_vars(OfflineNodeDetector_detect)

\* C37: a member of nodes:active whose heartbeat key has expired and that
\* sends no further heartbeat is eventually reported as offline_node.
C37_ExpiredNodeIsReported ==
    (SilentNode \in nodes_active /\ SilentNode \notin heartbeat)
       ~> (SilentNode \in offline_reported)

\* C38: whenever no heartbeat and no reader is in progress, every node
\* whose heartbeat key exists is a member of nodes:active.
C38_LiveNodesAreActive ==
    (listing.pc = "idle" /\ writers = {}) => heartbeat \subseteq nodes_active

\* How many times a job id occurs in the three priority lists together.
occurrences(S, id) ==
    Count(S.queue[QUEUE_HIGH], id) + Count(S.queue[QUEUE_NORMAL], id)
        + Count(S.queue[QUEUE_LOW], id)

\* C39: no job id occurs more than once across the three priority lists,
\* however the commands of retry, complete and claim calls interleave.
C39_NoDuplicateInQueues ==
    \A id \in DOMAIN store.jobs : occurrences(store, id) <= 1

\* C40: a job the scheduler loop has popped from vision:queue is, after
\* every step of the loop, still held by the loop, handed to a dispatch
\* task, or back in vision:queue.
C40_PoppedJobIsKept ==
    [][sched.job # NoJob =>
          \/ sched'.job = sched.job
          \/ \E t \in tasks' : t.job = sched.job
          \/ \E i \in 1..Len(vision_queue') : vision_queue'[i] = sched.job]_vars

====
